---- MODULE Spec2Model ----
(***************************************************************************)
(* RestMigrator (src/src/RestMigrator.ts, first class of the file):        *)
(* boot() is an async generator that draws source records, maps their      *)
(* fields through mapFields()/applyObjectMapping(), writes related and     *)
(* primary records through ListModel stores, and reports to an event bus.  *)
(* One action per continuation of the generator between two suspension     *)
(* points, plus the consumer's next()/return() and the source supplier.    *)
(***************************************************************************)
EXTENDS Integers, Sequences, FiniteSets, TLC

(* ---------------------------- bounds ----------------------------------- *)

\* number of source records the supplier hands out in one run
MaxRecords == 2

\* the updateOne calls without id made on the file-backed store
MaxCreates == 2

(* ---------------------------- values ----------------------------------- *)

\* a scalar JavaScript value
Val(n) == [v |-> n]

\* null / undefined
Null == [undef |-> TRUE]

\* a template string combining two source fields (`${title}: ${subtitle}`)
Concat(a, b) == [cat |-> <<a, b>>]

\* a structured sub-record ({ name: author, email })
SubRecord(a, b) == [name |-> a, email |-> b]

\* an object without own keys
EmptyObject == [k \in {} |-> Null]

\* an optional object: a variable that may still be undefined
Undefined == [def |-> FALSE, data |-> EmptyObject]
Defined(o) == [def |-> TRUE, data |-> o]

\* the source records the supplier can hand out
Records ==
  { [f1 |-> Val(1), f2 |-> Val(2), f3 |-> SubRecord(Val(1), Val(2))],
    [f1 |-> Val(2), f2 |-> Null, f3 |-> Null] }

\* the kinds of exception user code and stores can raise
ErrorKinds == {"Error", "RangeError"}

(* ------------------------- mapping schema ------------------------------ *)

\* one descriptor of a TargetPatch: { value?, unique?, model? }; val says how
\* the resolver computes `value` from the source record
D(key, val, unique, model) ==
  [key |-> key, val |-> val, unique |-> unique, model |-> model]

\* FieldMapping = keyof Target
Str(src, target) ==
  [src |-> src, kind |-> "string", patch |-> <<D(target, "own", FALSE, FALSE)>>]

\* FieldMapping = TargetPatch<Target> (literal object)
Obj(src, patch) == [src |-> src, kind |-> "object", patch |-> patch]

\* FieldMapping = (rawRow) => TargetPatch<Target>
Fn(src, patch) == [src |-> src, kind |-> "function", patch |-> patch]

\* EvalValue as it would be if a string mapping read the first source field
EvalValueOfFirstField(val, row, src) ==
  CASE val = "omitted" -> Null
    [] val = "own"     -> row.f1
    [] val = "f1"      -> row.f1
    [] val = "f2"      -> row.f2
    [] val = "both"    -> Concat(row.f1, row.f2)
    [] val = "sub"     -> SubRecord(row.f1, row.f2)

\* the `value` a resolver puts in a descriptor for a given source row
EvalValue(val, row, src) ==
  CASE val = "omitted" -> Null
    [] val = "own"     -> row[src]
    [] val = "f1"      -> row.f1
    [] val = "f2"      -> row.f2
    [] val = "both"    -> Concat(row.f1, row.f2)
    [] val = "sub"     -> SubRecord(row.f1, row.f2)

\* the mapping schemas a migrator is constructed with (key order = sequence order)
Schemas ==
  { <<Str("f1", "k1"), Str("f2", "k2")>>,
    <<Fn("f1", <<D("k1", "both", FALSE, FALSE), D("k2", "f2", FALSE, FALSE)>>)>>,
    <<Fn("f1", <<D("k1", "omitted", TRUE, FALSE)>>),
      Fn("f2", <<D("k2", "sub", FALSE, TRUE)>>)>>,
    <<Fn("f2", <<D("k2", "sub", FALSE, TRUE)>>),
      Obj("f1", <<D("k1", "omitted", TRUE, FALSE)>>)>>,
    <<Str("f1", "k1"), Str("f2", "k1")>>,
    <<Obj("f1", <<D("k1", "omitted", TRUE, TRUE)>>), Str("f2", "k2")>>,
    <<Fn("f1", <<D("k2", "sub", FALSE, TRUE), D("k1", "f1", TRUE, FALSE)>>)>>,
    <<Str("f2", "k2"),
      Fn("f1", <<D("k1", "both", FALSE, FALSE), D("k3", "f1", FALSE, FALSE)>>)>>,
    <<Str("f1", "k1"),
      Obj("f3", <<D("k2", "omitted", TRUE, FALSE), D("k3", "omitted", FALSE, TRUE)>>)>> }

\* the values of `concurrency` a caller may put in boot's option object
Concurrencies == {1, 2}

\* the page sizes a caller asks for: one item (the uniqueness query) or ten
PageSizes == {1, 10}

\* contents the primary store may hold before the run
SeededStores == { <<>>, <<[id |-> Val(1), k1 |-> Val(1)]>> }

(* ----------------------------- state ----------------------------------- *)

VARIABLES
  concurrency,    \* the `concurrency` of the option object handed to boot
  fieldMapping,   \* RestMigrator.fieldMapping
  source,         \* the iterator of dataSource(): open, ended or threw
  this_dryRun,    \* RestMigrator.dryRun (instance field)
  dryRun,         \* boot's parameter
  pc,             \* where the boot generator stands
  index,          \* boot's local `index`
  sourceItem,     \* the record drawn by for await
  mappedData,     \* boot's local `mappedData`
  error,          \* the exception travelling to boot's catch
  fi,             \* mapFields: position in fieldMapping
  resolved,       \* mapFields: resolvedMapping
  ki,             \* applyObjectMapping: position in mapping
  parts,          \* entries collected by Array.fromAsync
  primaryData,    \* records held by the primary store
  relatedData,    \* records held by the related store
  events,         \* calls received by the event bus
  yielded,        \* values delivered to the consumer
  upserts,        \* updateOne calls received by the stores
  stores,         \* the store instances constructed so far
  queries,        \* getList calls received by the stores
  targetStore,    \* boot's local `targetStore` (an instance of `stores`)
  mapping_targetStore,  \* applyObjectMapping's local `targetStore`
  drawn,          \* the records the source has handed to for await so far
  file,           \* the YAML file at baseURI: the blocks appended to it
  localAllItems,  \* YAMLListModel.localAllItems of the instance written through
  creates,        \* the data handed to updateOne without id, in call order
  reader,         \* a YAMLListModel constructed later on the same file
  page,           \* the reader's last loadPage call and what it returned
  suspended,      \* the boot generators that wait for their consumer's next()
  calls,          \* the boot calls made on the migrator so far
  run,            \* the boot call whose generator is being advanced
  switches        \* the times the consumer has turned back to a waiting generator

vars == <<concurrency, fieldMapping, source, this_dryRun, dryRun, pc, index,
          sourceItem, mappedData,
          error, fi, resolved, ki, parts, primaryData, relatedData, events,
          yielded, upserts, stores, queries, targetStore, mapping_targetStore,
          drawn, file, localAllItems, creates, reader, page, suspended,
          calls, run, switches>>

\* the boot calls made on one migrator
runVars == <<suspended, calls, run, switches>>

\* the state of the file-backed store
yamlVars == <<file, localAllItems, creates, reader, page>>

\* the state of the migrator and of the in-memory stores
bootVars ==
  <<concurrency, fieldMapping, source, this_dryRun, dryRun, pc, index, sourceItem,
    mappedData, error, fi, resolved, ki, parts, primaryData, relatedData, events,
    yielded, upserts, stores, queries, targetStore, mapping_targetStore, drawn,
    suspended, calls, run, switches>>

NoError == [kind |-> "none", cause |-> "none"]
NoItem == [f1 |-> Null, f2 |-> Null, f3 |-> Null]

Init ==
  /\ concurrency \in Concurrencies
  /\ fieldMapping \in Schemas
  /\ source = "open"
  /\ this_dryRun = FALSE
  /\ dryRun \in BOOLEAN
  /\ pc = "created"
  /\ index = 0
  /\ sourceItem = NoItem
  /\ mappedData = Undefined
  /\ error = NoError
  /\ fi = 1
  /\ resolved = <<>>
  /\ ki = 1
  /\ parts = <<>>
  /\ primaryData \in SeededStores
  /\ relatedData = <<>>
  /\ events = <<>>
  /\ yielded = <<>>
  /\ upserts = <<>>
  /\ stores = <<>>
  /\ queries = <<>>
  /\ targetStore = 0
  /\ mapping_targetStore = 0
  /\ drawn = <<>>
  /\ file = <<>>
  /\ localAllItems = <<>>
  /\ creates = <<>>
  /\ reader = [open |-> FALSE, items |-> <<>>]
  /\ page = [asked |-> FALSE]
  /\ suspended = <<>>
  /\ calls = <<[option |-> [dryRun |-> dryRun], dryRun |-> dryRun]>>
  /\ run = 1
  /\ switches = 0

(* ----------------------- stores (ListModel) ----------------------------- *)

\* TableModel.loadPage's filter: the items whose `key` field equals `value`
loadPage(data, key, value) ==
  SelectSeq(data, LAMBDA item : key \in DOMAIN item /\ item[key] = value)

\* Array.prototype.slice(from, to), with from and to counted from 0
slice(list, from, to) ==
  [i \in 1..(IF Len(list) < to THEN Len(list) - from ELSE to - from) |-> list[from + i]]

\* ListModel.getList(filter, 1, 1): the first page, of one item, of the matches
getList(data, key, value) == slice(loadPage(data, key, value), 0, 1)

\* TableModel.updateOne without id: { id: length + 1, ...data }
updateOne(data, item) ==
  [k \in {"id"} \cup DOMAIN item |->
     IF k \in DOMAIN item THEN item[k] ELSE Val(Len(data) + 1)]

\* `new Model()`: the instance is known by its position in `stores`
construct(class, site) == Append(stores, [class |-> class, site |-> site])

\* ListModel.indexKey of the related store
indexKey == "id"

(* --------------------------- event bus --------------------------------- *)

\* one call received by the event bus: the channel and the MigrationProgress;
\* `level` and `cause` record the call site and the origin of the error
Event(chan, level, i, item, mapped, target, err) ==
  [chan |-> chan, level |-> level, index |-> i, sourceItem |-> item,
   mappedData |-> mapped, targetItem |-> target, error |-> err]

\* handleError's choice between the skip and the error callback
isSkip(err) == err.kind = "RangeError"

\* handleError({ error, ...progress })
handleError(level, i, item, mapped, err) ==
  Event(IF isSkip(err) THEN "skip" ELSE "error", level, i, item, mapped, Undefined, err)

(* ---------------------------- mapFields -------------------------------- *)

\* fromEntries as it would be if the first entry of a key were kept
fromEntriesFirstWins(ps) ==
  [k \in {ps[i][1] : i \in DOMAIN ps} |->
     ps[CHOOSE i \in DOMAIN ps :
          /\ ps[i][1] = k
          /\ \A j \in DOMAIN ps : ps[j][1] = k => j >= i][2]]

\* Object.fromEntries: a later entry overwrites an earlier one of the same key
fromEntries(ps) ==
  [k \in {ps[i][1] : i \in DOMAIN ps} |->
     ps[CHOOSE i \in DOMAIN ps :
          /\ ps[i][1] = k
          /\ \A j \in DOMAIN ps : ps[j][1] = k => j <= i][2]]

\* resolvedMapping as it would be if a resolver were handed its own source
\* field only
resolvedMappingOfOwnField(f, row) ==
  LET m == fieldMapping[f]
      own == [g \in DOMAIN row |-> IF g = m.src THEN row[g] ELSE Null]
  IN [j \in DOMAIN m.patch |->
        [key    |-> m.patch[j].key,
         value  |-> EvalValue(m.patch[j].val, own, m.src),
         unique |-> m.patch[j].unique,
         model  |-> m.patch[j].model]]

\* resolvedMapping for the field at position f of the schema
resolvedMapping(f, row) ==
  LET m == fieldMapping[f] IN
    [j \in DOMAIN m.patch |->
       [key    |-> m.patch[j].key,
        value  |-> EvalValue(m.patch[j].val, row, m.src),
        unique |-> m.patch[j].unique,
        model  |-> m.patch[j].model]]

\* sourceItem[sourceField]
sourceValue == sourceItem[fieldMapping[fi].src]

\* `value ??= sourceValue` for the descriptor at position ki
descriptorValue ==
  IF resolved[ki].value = Null THEN sourceValue ELSE resolved[ki].value

\* the generator position after the descriptor at ki: the next descriptor of
\* this patch, or the next field of the schema
AdvanceKey ==
  IF ki < Len(resolved)
    THEN /\ ki' = ki + 1
         /\ pc' = "apply"
         /\ UNCHANGED <<fi, resolved>>
    ELSE /\ ki' = 1
         /\ fi' = fi + 1
         /\ resolved' = <<>>
         /\ pc' = "resolve"

\* an exception leaves the try block of boot
Throw(kind, cause) ==
  /\ error' = [kind |-> kind, cause |-> cause]
  /\ pc' = "catch"

(* ------------------------------ boot ----------------------------------- *)

\* the consumer's first next(): boot runs up to the for await
Start ==
  /\ pc = "created"
  /\ this_dryRun' = dryRun
  /\ index' = 0
  /\ pc' = "draw"
  /\ UNCHANGED <<yamlVars, runVars, concurrency, fieldMapping, source, dryRun,
                 sourceItem, mappedData, error, fi,
                 resolved, ki, parts, primaryData, relatedData, events, yielded,
                 upserts>>
  /\ stores' = construct("TargetModel", "boot")
  /\ targetStore' = Len(stores) + 1
  /\ UNCHANGED <<queries, mapping_targetStore, drawn>>

\* DrawRecord as it would be if the index counted the delivered records only
DrawRecordCountsDelivered ==
  /\ pc = "draw"
  /\ source = "open"
  /\ Len(drawn) < MaxRecords
  /\ \E row \in Records : sourceItem' = row /\ drawn' = Append(drawn, row)
  /\ index' = Len(yielded) + 1
  /\ mappedData' = Undefined
  /\ error' = NoError
  /\ parts' = <<>>
  /\ fi' = 1
  /\ ki' = 1
  /\ resolved' = <<>>
  /\ pc' = "resolve"
  /\ UNCHANGED <<yamlVars, runVars, concurrency, fieldMapping, source, this_dryRun,
                 dryRun, primaryData, relatedData,
                 events, yielded, upserts>>
  /\ UNCHANGED <<stores, queries, targetStore, mapping_targetStore>>

\* for await draws the next source record; mapFields(sourceItem, ++index) is
\* created and Array.fromAsync starts to iterate it
DrawRecord ==
  /\ pc = "draw"
  /\ source = "open"
  /\ Len(drawn) < MaxRecords
  /\ \E row \in Records : sourceItem' = row /\ drawn' = Append(drawn, row)
  /\ index' = index + 1
  /\ mappedData' = Undefined
  /\ error' = NoError
  /\ parts' = <<>>
  /\ fi' = 1
  /\ ki' = 1
  /\ resolved' = <<>>
  /\ pc' = "resolve"
  /\ UNCHANGED <<yamlVars, runVars, concurrency, fieldMapping, source, this_dryRun,
                 dryRun, primaryData, relatedData,
                 events, yielded, upserts>>
  /\ UNCHANGED <<stores, queries, targetStore, mapping_targetStore>>

\* the source supplier is exhausted: boot returns
SourceDone ==
  /\ pc = "draw"
  /\ source = "open"
  /\ source' = "ended"
  /\ pc' = "done"
  /\ UNCHANGED <<yamlVars, runVars, concurrency, fieldMapping, this_dryRun,
                 dryRun, index, sourceItem, mappedData,
                 error, fi, resolved, ki, parts, primaryData, relatedData, events,
                 yielded, upserts>>
  /\ UNCHANGED <<stores, queries, targetStore, mapping_targetStore, drawn>>

\* SourceThrows as it would be with the for await inside the try block
SourceThrowsCaught ==
  /\ pc = "draw"
  /\ source = "open"
  /\ source' = "threw"
  /\ Throw("Error", "source")
  /\ UNCHANGED <<yamlVars, runVars, concurrency, fieldMapping, this_dryRun,
                 dryRun, index, sourceItem, mappedData,
                 fi, resolved, ki, parts, primaryData, relatedData, events,
                 yielded, upserts>>
  /\ UNCHANGED <<stores, queries, targetStore, mapping_targetStore, drawn>>

\* the source supplier throws while the next record is drawn: the for await
\* stands outside the try block
SourceThrows ==
  /\ pc = "draw"
  /\ source = "open"
  /\ source' = "threw"
  /\ pc' = "failed"
  /\ UNCHANGED <<yamlVars, runVars, concurrency, fieldMapping, this_dryRun,
                 dryRun, index, sourceItem, mappedData,
                 error, fi, resolved, ki, parts, primaryData, relatedData, events,
                 yielded, upserts>>
  /\ UNCHANGED <<stores, queries, targetStore, mapping_targetStore, drawn>>

\* mapFields: the mapping of the next declared source field is resolved and
\* applyObjectMapping starts on it
ResolveField ==
  /\ pc = "resolve"
  /\ fi <= Len(fieldMapping)
  /\ LET r == resolvedMapping(fi, sourceItem) IN
       IF Len(r) = 0
         THEN /\ fi' = fi + 1
              /\ UNCHANGED <<resolved, pc>>
         ELSE /\ resolved' = r
              /\ pc' = "apply"
              /\ UNCHANGED fi
  /\ ki' = 1
  /\ UNCHANGED <<yamlVars, runVars, concurrency, fieldMapping, source, this_dryRun,
                 dryRun, index, sourceItem, mappedData,
                 error, parts, primaryData, relatedData, events, yielded, upserts>>
  /\ stores' = construct("TargetModel", "applyObjectMapping")
  /\ mapping_targetStore' = Len(stores) + 1
  /\ UNCHANGED <<queries, targetStore, drawn>>

\* ResolverThrows as it would be if mapFields reported the failure itself
\* before rethrowing it
ResolverThrowsReported ==
  /\ pc = "resolve"
  /\ fi <= Len(fieldMapping)
  /\ fieldMapping[fi].kind = "function"
  /\ \E kind \in ErrorKinds :
       /\ Throw(kind, "resolver")
       /\ events' = Append(events,
                           handleError("record", index, sourceItem, mappedData,
                                       [kind |-> kind, cause |-> "resolver"]))
  /\ UNCHANGED <<yamlVars, runVars, concurrency, fieldMapping, source, this_dryRun,
                 dryRun, index, sourceItem,
                 mappedData, fi, resolved, ki, parts, primaryData, relatedData,
                 yielded, upserts>>
  /\ UNCHANGED <<stores, queries, targetStore, mapping_targetStore, drawn>>

\* mapFields: `await mapping(sourceItem)` throws or rejects
ResolverThrows ==
  /\ pc = "resolve"
  /\ fi <= Len(fieldMapping)
  /\ fieldMapping[fi].kind = "function"
  /\ \E kind \in ErrorKinds : Throw(kind, "resolver")
  /\ UNCHANGED <<yamlVars, runVars, concurrency, fieldMapping, source, this_dryRun,
                 dryRun, index, sourceItem, mappedData,
                 fi, resolved, ki, parts, primaryData, relatedData, events,
                 yielded, upserts>>
  /\ UNCHANGED <<stores, queries, targetStore, mapping_targetStore, drawn>>

\* ApplyNull as it would be if a null value were written to the patch
ApplyNullWritesField ==
  /\ pc = "apply"
  /\ descriptorValue = Null
  /\ parts' = Append(parts, <<resolved[ki].key, descriptorValue>>)
  /\ AdvanceKey
  /\ UNCHANGED <<yamlVars, runVars, concurrency, fieldMapping, source, this_dryRun,
                 dryRun, index, sourceItem, mappedData,
                 error, primaryData, relatedData, events, yielded, upserts>>
  /\ UNCHANGED <<stores, queries, targetStore, mapping_targetStore, drawn>>

\* applyObjectMapping: `if (!(value != null)) continue`
ApplyNull ==
  /\ pc = "apply"
  /\ descriptorValue = Null
  /\ AdvanceKey
  /\ UNCHANGED <<yamlVars, runVars, concurrency, fieldMapping, source, this_dryRun,
                 dryRun, index, sourceItem, mappedData,
                 error, parts, primaryData, relatedData, events, yielded, upserts>>
  /\ UNCHANGED <<stores, queries, targetStore, mapping_targetStore, drawn>>

\* ApplyUnique as it would be if a dry run left the uniqueness query out
ApplyUniqueNotInDryRun ==
  /\ pc = "apply"
  /\ descriptorValue # Null
  /\ resolved[ki].unique
  /\ IF ~this_dryRun /\ getList(primaryData, resolved[ki].key, descriptorValue) # <<>>
       THEN /\ Throw("RangeError", "duplicate")
            /\ UNCHANGED <<fi, resolved, ki, parts>>
       ELSE /\ parts' = Append(parts, <<resolved[ki].key, descriptorValue>>)
            /\ AdvanceKey
            /\ UNCHANGED error
  /\ UNCHANGED <<yamlVars, runVars, concurrency, fieldMapping, source, this_dryRun,
                 dryRun, index, sourceItem, mappedData,
                 primaryData, relatedData, events, yielded, upserts>>
  /\ queries' = IF this_dryRun THEN queries
                ELSE Append(queries, [instance |-> mapping_targetStore,
                                      index |-> index,
                                      key |-> resolved[ki].key,
                                      value |-> descriptorValue])
  /\ UNCHANGED <<stores, targetStore, mapping_targetStore, drawn>>

\* applyObjectMapping: the `unique` branch; the store queried is a new
\* TargetModel() on the primary store's data
ApplyUnique ==
  /\ pc = "apply"
  /\ descriptorValue # Null
  /\ resolved[ki].unique
  /\ IF getList(primaryData, resolved[ki].key, descriptorValue) # <<>>
       THEN /\ Throw("RangeError", "duplicate")
            /\ UNCHANGED <<fi, resolved, ki, parts>>
       ELSE /\ parts' = Append(parts, <<resolved[ki].key, descriptorValue>>)
            /\ AdvanceKey
            /\ UNCHANGED error
  /\ UNCHANGED <<yamlVars, runVars, concurrency, fieldMapping, source, this_dryRun,
                 dryRun, index, sourceItem, mappedData,
                 primaryData, relatedData, events, yielded, upserts>>
  /\ queries' = Append(queries, [instance |-> mapping_targetStore,
                                 index |-> index,
                                 key |-> resolved[ki].key,
                                 value |-> descriptorValue])
  /\ UNCHANGED <<stores, targetStore, mapping_targetStore, drawn>>

\* writesRelation as it would be without the `!dryRun` test
writesRelationInDryRun == resolved[ki].model

\* whether applyObjectMapping takes the `else if (model && !dryRun)` branch
writesRelation == resolved[ki].model /\ ~this_dryRun

\* applyObjectMapping: neither branch applies, `yield [key, value]`
ApplyPlain ==
  /\ pc = "apply"
  /\ descriptorValue # Null
  /\ ~resolved[ki].unique
  /\ ~writesRelation
  /\ parts' = Append(parts, <<resolved[ki].key, descriptorValue>>)
  /\ AdvanceKey
  /\ UNCHANGED <<yamlVars, runVars, concurrency, fieldMapping, source, this_dryRun,
                 dryRun, index, sourceItem, mappedData,
                 error, primaryData, relatedData, events, yielded, upserts>>
  /\ UNCHANGED <<stores, queries, targetStore, mapping_targetStore, drawn>>

\* ApplyRelation as it would be with a cache of the sub-records already saved
ApplyRelationCached ==
  /\ pc = "apply"
  /\ descriptorValue # Null
  /\ ~resolved[ki].unique
  /\ writesRelation
  /\ LET known == SelectSeq(relatedData, LAMBDA r :
                    \A k \in DOMAIN descriptorValue :
                      k \in DOMAIN r /\ r[k] = descriptorValue[k])
         savedValue == updateOne(relatedData, descriptorValue)
     IN IF known # <<>>
          THEN /\ parts' = Append(parts, <<resolved[ki].key, known[1][indexKey]>>)
               /\ UNCHANGED <<relatedData, upserts, events>>
          ELSE /\ relatedData' = Append(relatedData, savedValue)
               /\ upserts' = Append(upserts, [store |-> "related",
                                              instance |-> Len(stores) + 1,
                                              index |-> index,
                                              key |-> resolved[ki].key,
                                              data |-> descriptorValue, ok |-> TRUE,
                                              result |-> savedValue])
               /\ events' = Append(events, Event("save", "relation", index, sourceItem,
                                                 Defined(descriptorValue),
                                                 Defined(savedValue), NoError))
               /\ parts' = Append(parts, <<resolved[ki].key, savedValue[indexKey]>>)
  /\ AdvanceKey
  /\ UNCHANGED <<yamlVars, runVars, concurrency, fieldMapping, source, this_dryRun,
                 dryRun, index, sourceItem,
                 mappedData, error, primaryData, yielded>>
  /\ stores' = construct("model", "applyObjectMapping")
  /\ UNCHANGED <<queries, targetStore, mapping_targetStore, drawn>>

\* ApplyRelation as it would be if onRelationSave were not called
ApplyRelationWithoutSave ==
  /\ pc = "apply"
  /\ descriptorValue # Null
  /\ ~resolved[ki].unique
  /\ writesRelation
  /\ LET savedValue == updateOne(relatedData, descriptorValue) IN
       /\ relatedData' = Append(relatedData, savedValue)
       /\ upserts' = Append(upserts, [store |-> "related",
                                      instance |-> Len(stores) + 1,
                                      index |-> index,
                                      key |-> resolved[ki].key,
                                      data |-> descriptorValue, ok |-> TRUE,
                                      result |-> savedValue])
       /\ events' = events
       /\ parts' = Append(parts, <<resolved[ki].key, savedValue[indexKey]>>)
  /\ AdvanceKey
  /\ UNCHANGED <<yamlVars, runVars, concurrency, fieldMapping, source, this_dryRun,
                 dryRun, index, sourceItem, mappedData,
                 error, primaryData, yielded>>
  /\ stores' = construct("model", "applyObjectMapping")
  /\ UNCHANGED <<queries, targetStore, mapping_targetStore, drawn>>

\* ApplyRelation as it would be if the related write did not depend on `unique`
ApplyRelationIgnoresUnique ==
  /\ pc = "apply"
  /\ descriptorValue # Null
  /\ writesRelation
  /\ LET savedValue == updateOne(relatedData, descriptorValue) IN
       /\ relatedData' = Append(relatedData, savedValue)
       /\ upserts' = Append(upserts, [store |-> "related",
                                      instance |-> Len(stores) + 1,
                                      index |-> index,
                                      key |-> resolved[ki].key,
                                      data |-> descriptorValue, ok |-> TRUE,
                                      result |-> savedValue])
       /\ events' = Append(events, Event("save", "relation", index, sourceItem,
                                         Defined(descriptorValue),
                                         Defined(savedValue), NoError))
       /\ parts' = Append(parts, <<resolved[ki].key, savedValue[indexKey]>>)
  /\ AdvanceKey
  /\ UNCHANGED <<yamlVars, runVars, concurrency, fieldMapping, source, this_dryRun,
                 dryRun, index, sourceItem, mappedData,
                 error, primaryData, yielded>>
  /\ stores' = construct("model", "applyObjectMapping")
  /\ UNCHANGED <<queries, targetStore, mapping_targetStore, drawn>>

\* applyObjectMapping: relatedStore.updateOne(value) succeeds, onRelationSave
\* is awaited, and the saved record's indexKey value is yielded
ApplyRelation ==
  /\ pc = "apply"
  /\ descriptorValue # Null
  /\ ~resolved[ki].unique
  /\ writesRelation
  /\ LET savedValue == updateOne(relatedData, descriptorValue) IN
       /\ relatedData' = Append(relatedData, savedValue)
       /\ upserts' = Append(upserts, [store |-> "related",
                                      instance |-> Len(stores) + 1,
                                      index |-> index,
                                      key |-> resolved[ki].key,
                                      data |-> descriptorValue, ok |-> TRUE,
                                      result |-> savedValue])
       /\ events' = Append(events, Event("save", "relation", index, sourceItem,
                                         Defined(descriptorValue),
                                         Defined(savedValue), NoError))
       /\ parts' = Append(parts, <<resolved[ki].key, savedValue[indexKey]>>)
  /\ AdvanceKey
  /\ UNCHANGED <<yamlVars, runVars, concurrency, fieldMapping, source, this_dryRun,
                 dryRun, index, sourceItem, mappedData,
                 error, primaryData, yielded>>
  /\ stores' = construct("model", "applyObjectMapping")
  /\ UNCHANGED <<queries, targetStore, mapping_targetStore, drawn>>

\* ApplyRelationFails as it would be without the try block around the
\* related store's write
ApplyRelationFailsAborts ==
  /\ pc = "apply"
  /\ descriptorValue # Null
  /\ ~resolved[ki].unique
  /\ writesRelation
  /\ upserts' = Append(upserts, [store |-> "related",
                                 instance |-> Len(stores) + 1,
                                 index |-> index,
                                 key |-> resolved[ki].key,
                                 data |-> descriptorValue, ok |-> FALSE,
                                 result |-> EmptyObject])
  /\ \E kind \in ErrorKinds : Throw(kind, "relation")
  /\ UNCHANGED <<yamlVars, runVars, concurrency, fieldMapping, source, this_dryRun,
                 dryRun, index, sourceItem,
                 mappedData, fi, resolved, ki, parts, primaryData, relatedData,
                 events, yielded>>
  /\ stores' = construct("model", "applyObjectMapping")
  /\ UNCHANGED <<queries, targetStore, mapping_targetStore, drawn>>

\* applyObjectMapping: relatedStore.updateOne(value) throws; the catch block
\* awaits onRelationError and continues with the next key
ApplyRelationFails ==
  /\ pc = "apply"
  /\ descriptorValue # Null
  /\ ~resolved[ki].unique
  /\ writesRelation
  /\ \E kind \in ErrorKinds :
       /\ upserts' = Append(upserts, [store |-> "related",
                                      instance |-> Len(stores) + 1,
                                      index |-> index,
                                      key |-> resolved[ki].key,
                                      data |-> descriptorValue, ok |-> FALSE,
                                      result |-> EmptyObject])
       /\ events' = Append(events,
                           handleError("relation", index, sourceItem,
                                       Defined(descriptorValue),
                                       [kind |-> kind, cause |-> "relation"]))
  /\ AdvanceKey
  /\ UNCHANGED <<yamlVars, runVars, concurrency, fieldMapping, source, this_dryRun,
                 dryRun, index, sourceItem, mappedData,
                 error, parts, primaryData, relatedData, yielded>>
  /\ stores' = construct("model", "applyObjectMapping")
  /\ UNCHANGED <<queries, targetStore, mapping_targetStore, drawn>>

\* boot: Array.fromAsync is through; mappedData is assigned, and a dry run
\* yields it
MapFieldsDone ==
  /\ pc = "resolve"
  /\ fi > Len(fieldMapping)
  /\ mappedData' = Defined(fromEntries(parts))
  /\ IF dryRun
       THEN /\ yielded' = Append(yielded, [index |-> index, item |-> fromEntries(parts)])
            /\ pc' = "yielded"
       ELSE /\ pc' = "persist"
            /\ UNCHANGED yielded
  /\ UNCHANGED <<yamlVars, runVars, concurrency, fieldMapping, source, this_dryRun,
                 dryRun, index, sourceItem, error, fi,
                 resolved, ki, parts, primaryData, relatedData, events, upserts>>
  /\ UNCHANGED <<stores, queries, targetStore, mapping_targetStore, drawn>>

\* boot: targetStore.updateOne(mappedData) succeeds and targetItem is yielded
Persist ==
  /\ pc = "persist"
  /\ LET targetItem == updateOne(primaryData, mappedData.data) IN
       /\ primaryData' = Append(primaryData, targetItem)
       /\ upserts' = Append(upserts, [store |-> "primary",
                                      instance |-> targetStore,
                                      index |-> index,
                                      key |-> "",
                                      data |-> mappedData.data, ok |-> TRUE,
                                      result |-> targetItem])
       /\ yielded' = Append(yielded, [index |-> index, item |-> targetItem])
  /\ pc' = "yielded"
  /\ UNCHANGED <<yamlVars, runVars, concurrency, fieldMapping, source, this_dryRun,
                 dryRun, index, sourceItem, mappedData,
                 error, fi, resolved, ki, parts, relatedData, events>>
  /\ UNCHANGED <<stores, queries, targetStore, mapping_targetStore, drawn>>

\* PersistFails as it would be if the yield stood after the try statement
PersistFailsYields ==
  /\ pc = "persist"
  /\ upserts' = Append(upserts, [store |-> "primary",
                                 instance |-> targetStore,
                                 index |-> index,
                                 key |-> "",
                                 data |-> mappedData.data, ok |-> FALSE,
                                 result |-> EmptyObject])
  /\ yielded' = Append(yielded, [index |-> index, item |-> mappedData.data])
  /\ \E kind \in ErrorKinds : Throw(kind, "primary")
  /\ UNCHANGED <<yamlVars, runVars, concurrency, fieldMapping, source, this_dryRun,
                 dryRun, index, sourceItem,
                 mappedData, fi, resolved, ki, parts, primaryData, relatedData,
                 events>>
  /\ UNCHANGED <<stores, queries, targetStore, mapping_targetStore, drawn>>

\* boot: targetStore.updateOne(mappedData) throws
PersistFails ==
  /\ pc = "persist"
  /\ upserts' = Append(upserts, [store |-> "primary",
                                 instance |-> targetStore,
                                 index |-> index,
                                 key |-> "",
                                 data |-> mappedData.data, ok |-> FALSE,
                                 result |-> EmptyObject])
  /\ \E kind \in ErrorKinds : Throw(kind, "primary")
  /\ UNCHANGED <<yamlVars, runVars, concurrency, fieldMapping, source, this_dryRun,
                 dryRun, index, sourceItem, mappedData,
                 fi, resolved, ki, parts, primaryData, relatedData, events, yielded>>
  /\ UNCHANGED <<stores, queries, targetStore, mapping_targetStore, drawn>>

\* Resume as it would be if the loop went on without awaiting eventBus.save
ResumeWithoutSave ==
  /\ pc = "yielded"
  /\ events' = events
  /\ pc' = "draw"
  /\ UNCHANGED <<yamlVars, runVars, concurrency, fieldMapping, source, this_dryRun,
                 dryRun, index, sourceItem, mappedData,
                 error, fi, resolved, ki, parts, primaryData, relatedData, yielded,
                 upserts>>
  /\ UNCHANGED <<stores, queries, targetStore, mapping_targetStore, drawn>>

\* Resume as it would be if a dry run reported its patch as saved
ResumeSavesInDryRun ==
  /\ pc = "yielded"
  /\ events' = Append(events, Event("save", "record", index, sourceItem,
                                    mappedData,
                                    Defined(yielded[Len(yielded)].item),
                                    NoError))
  /\ pc' = "draw"
  /\ UNCHANGED <<yamlVars, runVars, concurrency, fieldMapping, source, this_dryRun,
                 dryRun, index, sourceItem, mappedData,
                 error, fi, resolved, ki, parts, primaryData, relatedData, yielded,
                 upserts>>
  /\ UNCHANGED <<stores, queries, targetStore, mapping_targetStore, drawn>>

\* the consumer's next() after a yield: boot resumes, a real run awaits
\* eventBus.save, and the loop goes on
Resume ==
  /\ pc = "yielded"
  /\ events' = IF dryRun
                 THEN events
                 ELSE Append(events, Event("save", "record", index, sourceItem,
                                           mappedData,
                                           Defined(yielded[Len(yielded)].item),
                                           NoError))
  /\ pc' = "draw"
  /\ UNCHANGED <<yamlVars, runVars, concurrency, fieldMapping, source, this_dryRun,
                 dryRun, index, sourceItem, mappedData,
                 error, fi, resolved, ki, parts, primaryData, relatedData, yielded,
                 upserts>>
  /\ UNCHANGED <<stores, queries, targetStore, mapping_targetStore, drawn>>

\* the consumer's return() at a yield: the generator finishes there
Abandon ==
  /\ pc = "yielded"
  /\ pc' = "returned"
  /\ UNCHANGED <<yamlVars, runVars, concurrency, fieldMapping, source, this_dryRun,
                 dryRun, index, sourceItem, mappedData,
                 error, fi, resolved, ki, parts, primaryData, relatedData, events,
                 yielded, upserts>>
  /\ UNCHANGED <<stores, queries, targetStore, mapping_targetStore, drawn>>

\* Catch as it would be if the catch block rethrew after reporting
CatchRethrows ==
  /\ pc = "catch"
  /\ events' = Append(events, handleError("record", index, sourceItem, mappedData, error))
  /\ pc' = "failed"
  /\ UNCHANGED <<yamlVars, runVars, concurrency, fieldMapping, source, this_dryRun,
                 dryRun, index, sourceItem,
                 mappedData, error, fi, resolved, ki, parts, primaryData,
                 relatedData, yielded, upserts>>
  /\ UNCHANGED <<stores, queries, targetStore, mapping_targetStore, drawn>>

\* Catch as it would be if it reported the entries mapped before the failure
CatchReportsParts ==
  /\ pc = "catch"
  /\ events' = Append(events, handleError("record", index, sourceItem,
                                          Defined(fromEntries(parts)), error))
  /\ pc' = "draw"
  /\ UNCHANGED <<yamlVars, runVars, concurrency, fieldMapping, source, this_dryRun,
                 dryRun, index, sourceItem, mappedData,
                 error, fi, resolved, ki, parts, primaryData, relatedData, yielded,
                 upserts>>
  /\ UNCHANGED <<stores, queries, targetStore, mapping_targetStore, drawn>>

\* Catch as it would be if the loop went on without awaiting handleError
CatchWithoutNotice ==
  /\ pc = "catch"
  /\ pc' = "draw"
  /\ UNCHANGED <<yamlVars, runVars, concurrency, fieldMapping, source, this_dryRun, dryRun,
                 index, sourceItem, mappedData, error, fi, resolved, ki, parts,
                 primaryData, relatedData, events, yielded, upserts>>
  /\ UNCHANGED <<stores, queries, targetStore, mapping_targetStore, drawn>>

\* Catch as it would be if the primary write stood after the try statement
CatchThenPersist ==
  /\ pc = "catch"
  /\ events' = Append(events, handleError("record", index, sourceItem, mappedData, error))
  /\ pc' = "persist"
  /\ UNCHANGED <<yamlVars, runVars, concurrency, fieldMapping, source, this_dryRun, dryRun,
                 index, sourceItem, mappedData, error, fi, resolved, ki, parts,
                 primaryData, relatedData, yielded, upserts>>
  /\ UNCHANGED <<stores, queries, targetStore, mapping_targetStore, drawn>>

\* boot's catch block: handleError is awaited and the loop goes on
Catch ==
  /\ pc = "catch"
  /\ events' = Append(events, handleError("record", index, sourceItem, mappedData, error))
  /\ pc' = "draw"
  /\ UNCHANGED <<yamlVars, runVars, concurrency, fieldMapping, source, this_dryRun,
                 dryRun, index, sourceItem, mappedData,
                 error, fi, resolved, ki, parts, primaryData, relatedData, yielded,
                 upserts>>
  /\ UNCHANGED <<stores, queries, targetStore, mapping_targetStore, drawn>>

Next ==
  \/ Start
  \/ DrawRecord
  \/ SourceDone
  \/ SourceThrows
  \/ ResolveField
  \/ ResolverThrows
  \/ ApplyNull
  \/ ApplyUnique
  \/ ApplyPlain
  \/ ApplyRelation
  \/ ApplyRelationFails
  \/ MapFieldsDone
  \/ Persist
  \/ PersistFails
  \/ Resume
  \/ Abandon
  \/ Catch

Spec == Init /\ [][Next]_vars

(* ------------------- an event bus whose callbacks throw ------------------ *)

\* boot resumes after `yield targetItem` and eventBus.save throws: the call
\* stands inside the try block, so the exception goes to boot's catch
SaveThrows ==
  /\ pc = "yielded"
  /\ ~dryRun
  /\ events' = Append(events, Event("save", "record", index, sourceItem, mappedData,
                                    Defined(yielded[Len(yielded)].item), NoError))
  /\ \E kind \in ErrorKinds : Throw(kind, "observer")
  /\ UNCHANGED <<yamlVars, runVars, concurrency, fieldMapping, source, this_dryRun, dryRun, index,
                 sourceItem, mappedData, fi, resolved, ki, parts, primaryData,
                 relatedData, yielded, upserts>>
  /\ UNCHANGED <<stores, queries, targetStore, mapping_targetStore, drawn>>

\* applyObjectMapping: relatedStore.updateOne(value) succeeds and
\* onRelationSave throws: the catch block of the related write awaits
\* onRelationError and continues with the next key, no entry being yielded
RelationSaveThrows ==
  /\ pc = "apply"
  /\ descriptorValue # Null
  /\ ~resolved[ki].unique
  /\ writesRelation
  /\ LET savedValue == updateOne(relatedData, descriptorValue) IN
       /\ relatedData' = Append(relatedData, savedValue)
       /\ upserts' = Append(upserts, [store |-> "related",
                                      instance |-> Len(stores) + 1,
                                      index |-> index,
                                      key |-> resolved[ki].key,
                                      data |-> descriptorValue, ok |-> TRUE,
                                      result |-> savedValue])
       /\ \E kind \in ErrorKinds :
            events' = events \o
              <<Event("save", "relation", index, sourceItem,
                      Defined(descriptorValue), Defined(savedValue), NoError),
                handleError("relation", index, sourceItem, Defined(descriptorValue),
                            [kind |-> kind, cause |-> "observer"])>>
  /\ AdvanceKey
  /\ UNCHANGED <<yamlVars, runVars, concurrency, fieldMapping, source, this_dryRun, dryRun, index,
                 sourceItem, mappedData, error, parts, primaryData, yielded>>
  /\ stores' = construct("model", "applyObjectMapping")
  /\ UNCHANGED <<queries, targetStore, mapping_targetStore, drawn>>

\* applyObjectMapping: relatedStore.updateOne(value) throws and onRelationError
\* throws in its turn: the exception leaves mapFields for boot's catch
RelationErrorThrows ==
  /\ pc = "apply"
  /\ descriptorValue # Null
  /\ ~resolved[ki].unique
  /\ writesRelation
  /\ upserts' = Append(upserts, [store |-> "related",
                                 instance |-> Len(stores) + 1,
                                 index |-> index,
                                 key |-> resolved[ki].key,
                                 data |-> descriptorValue, ok |-> FALSE,
                                 result |-> EmptyObject])
  /\ \E kind \in ErrorKinds :
       events' = Append(events,
                        handleError("relation", index, sourceItem,
                                    Defined(descriptorValue),
                                    [kind |-> kind, cause |-> "relation"]))
  /\ \E kind \in ErrorKinds : Throw(kind, "observer")
  /\ UNCHANGED <<yamlVars, runVars, concurrency, fieldMapping, source, this_dryRun, dryRun, index,
                 sourceItem, mappedData, fi, resolved, ki, parts, primaryData,
                 relatedData, yielded>>
  /\ stores' = construct("model", "applyObjectMapping")
  /\ UNCHANGED <<queries, targetStore, mapping_targetStore, drawn>>

\* boot's catch block: the skip or error callback throws, and the exception
\* leaves boot for its consumer
CatchThrows ==
  /\ pc = "catch"
  /\ events' = Append(events, handleError("record", index, sourceItem, mappedData, error))
  /\ \E kind \in ErrorKinds : error' = [kind |-> kind, cause |-> "observer"]
  /\ pc' = "failed"
  /\ UNCHANGED <<yamlVars, runVars, concurrency, fieldMapping, source, this_dryRun, dryRun, index,
                 sourceItem, mappedData, fi, resolved, ki, parts, primaryData,
                 relatedData, yielded, upserts>>
  /\ UNCHANGED <<stores, queries, targetStore, mapping_targetStore, drawn>>

NextThrowingBus ==
  \/ Next
  \/ SaveThrows
  \/ RelationSaveThrows
  \/ RelationErrorThrows
  \/ CatchThrows

\* the run with an event bus that may throw
SpecThrowingBus == Init /\ [][NextThrowingBus]_vars

(* ------------------------- YAMLListModel -------------------------------- *)

\* a JavaScript string, as its sequence of characters
Text(s) == [str |-> s]

\* typeof x === 'string'
IsString(x) == "str" \in DOMAIN x

\* the decimal digits of the numbers the model uses
Digits == <<"1", "2", "3">>

\* `value + ''`: a string stays, a number becomes its decimal notation
StringOf(x) == IF IsString(x) THEN x.str ELSE <<Digits[x.v]>>

\* String.prototype.includes
includes(full, sub) ==
  \E i \in 0..(Len(full) - Len(sub)) : SubSeq(full, i + 1, i + Len(sub)) = sub

\* the predicate of loadPage's filter: every entry of `filter` is found in
\* the item, a string field by includes, any other field by ===
YAML_matches(item, filter) ==
  \A key \in DOMAIN filter :
    LET fullValue == IF key \in DOMAIN item THEN item[key] ELSE Null IN
      IF IsString(fullValue)
        THEN includes(fullValue.str, StringOf(filter[key]))
        ELSE fullValue = filter[key]

\* YAMLListModel.loadPage(pageIndex, pageSize, filter)
YAML_loadPage(items, pageIndex, pageSize, filter) ==
  LET filteredItems == SelectSeq(items, LAMBDA item : YAML_matches(item, filter)) IN
    [pageData   |-> slice(filteredItems, (pageIndex - 1) * pageSize, pageIndex * pageSize),
     totalCount |-> Len(filteredItems)]

\* the plain scalar that yaml writes for, and reads as, null
NullWord == <<"n", "u", "l", "l">>

\* the plain scalar would be read as a number
ReadsAsNumber(chars) ==
  chars # <<>> /\ \A i \in DOMAIN chars : \E d \in DOMAIN Digits : Digits[d] = chars[i]

\* stringifyScalar as it would be if strings were never quoted
stringifyScalarPlain(x) ==
  IF x = Null
    THEN [quoted |-> FALSE, chars |-> NullWord]
    ELSE IF IsString(x)
      THEN [quoted |-> FALSE, chars |-> x.str]
      ELSE [quoted |-> FALSE, chars |-> <<Digits[x.v]>>]

\* yaml.stringify of a field value: a number in decimal notation, a string
\* plain, or quoted when the plain scalar would be read as a number
stringifyScalar(x) ==
  IF x = Null
    THEN [quoted |-> FALSE, chars |-> NullWord]
    ELSE IF IsString(x)
      THEN [quoted |-> ReadsAsNumber(x.str) \/ x.str = NullWord, chars |-> x.str]
      ELSE [quoted |-> FALSE, chars |-> <<Digits[x.v]>>]

\* yaml.parse of a scalar: a quoted scalar is a string, a plain one a number
\* when it is one digit, a string otherwise
parseScalar(token) ==
  IF ~token.quoted /\ token.chars = NullWord
    THEN Null
    ELSE IF ~token.quoted /\ ReadsAsNumber(token.chars) /\ Len(token.chars) = 1
      THEN Val(CHOOSE d \in DOMAIN Digits : Digits[d] = token.chars[1])
      ELSE Text(token.chars)

\* the order in which the keys of an item are written
KeyOrder == <<"id", "name", "email">>

\* yaml.stringify([data]): one block of `key: scalar` lines
stringify(data) ==
  LET keys == SelectSeq(KeyOrder, LAMBDA k : k \in DOMAIN data) IN
    [j \in DOMAIN keys |-> <<keys[j], stringifyScalar(data[keys[j]])>>]

\* yaml.parse(readFileSync(baseURI) + '') || []
parse(blocks) ==
  [i \in DOMAIN blocks |->
     [k \in {blocks[i][j][1] : j \in DOMAIN blocks[i]} |->
        parseScalar(blocks[i][CHOOSE j \in DOMAIN blocks[i] : blocks[i][j][1] = k][2])]]

\* the values a field of an item, or of a filter, may hold
FieldValues == {Text(<<"a">>), Text(<<"a", "b">>), Text(<<"1">>), Val(1)}

\* the items handed to updateOne
Items ==
  {[name |-> v] : v \in FieldValues} \cup {[id |-> Val(2), name |-> v] : v \in FieldValues}

\* the filters handed to loadPage
Filters == {EmptyObject} \cup {[name |-> v] : v \in FieldValues} \cup {[id |-> Val(2)]}

\* the state in which the migrator stays while the file-backed store is used
BootIdle ==
  /\ concurrency = 1
  /\ fieldMapping = <<>>
  /\ source = "open"
  /\ this_dryRun = FALSE
  /\ dryRun = FALSE
  /\ pc = "created"
  /\ index = 0
  /\ sourceItem = NoItem
  /\ mappedData = Undefined
  /\ error = NoError
  /\ fi = 1
  /\ resolved = <<>>
  /\ ki = 1
  /\ parts = <<>>
  /\ primaryData = <<>>
  /\ relatedData = <<>>
  /\ events = <<>>
  /\ yielded = <<>>
  /\ upserts = <<>>
  /\ stores = <<>>
  /\ queries = <<>>
  /\ targetStore = 0
  /\ mapping_targetStore = 0
  /\ drawn = <<>>
  /\ suspended = <<>>
  /\ calls = <<>>
  /\ run = 0
  /\ switches = 0

\* new YAMLListModel(baseURI) on a file that does not exist yet
InitYAML ==
  /\ BootIdle
  /\ file = <<>>
  /\ localAllItems = parse(file)
  /\ creates = <<>>
  /\ reader = [open |-> FALSE, items |-> <<>>]
  /\ page = [asked |-> FALSE]

\* YAMLListModel.updateOne(data): the item is pushed and appended to the file
YAML_Create ==
  /\ Len(creates) < MaxCreates
  /\ \E data \in Items :
       /\ localAllItems' = Append(localAllItems, data)
       /\ file' = Append(file, stringify(data))
       /\ creates' = Append(creates, data)
  /\ UNCHANGED <<bootVars, reader, page>>

\* YAMLListModel.updateOne(data, id): getOne(id) finds the item and
\* Object.assign changes it in memory; the file is not written
YAML_Update ==
  /\ \E data \in Items, i \in DOMAIN localAllItems :
       /\ "id" \in DOMAIN localAllItems[i]
       /\ \A j \in 1..(i - 1) : "id" \in DOMAIN localAllItems[j] =>
                                  localAllItems[j].id # localAllItems[i].id
       /\ localAllItems' =
            [localAllItems EXCEPT ![i] =
               [k \in DOMAIN data \cup DOMAIN @ |->
                  IF k \in DOMAIN data THEN data[k] ELSE @[k]]]
  /\ UNCHANGED <<bootVars, file, creates, reader, page>>

\* a second YAMLListModel is constructed on the same file
YAML_Open ==
  /\ reader' = [open |-> TRUE, items |-> parse(file)]
  /\ page' = [asked |-> FALSE]
  /\ UNCHANGED <<bootVars, file, localAllItems, creates>>

\* reader.loadPage(pageIndex, pageSize, filter)
YAML_Query ==
  /\ reader.open
  /\ \E pageIndex \in 1..2, pageSize \in PageSizes, filter \in Filters :
       page' = [asked |-> TRUE, pageIndex |-> pageIndex, pageSize |-> pageSize,
                filter |-> filter,
                result |-> YAML_loadPage(reader.items, pageIndex, pageSize, filter)]
  /\ UNCHANGED <<bootVars, file, localAllItems, creates, reader>>

NextYAML ==
  \/ YAML_Create
  \/ YAML_Update
  \/ YAML_Open
  \/ YAML_Query

\* a file-backed store written through one instance and read through another
SpecYAML == InitYAML /\ [][NextYAML]_vars

(* ------------- a file-backed store as the related store ------------------ *)

\* savedValue[relatedStore.indexKey]: a property the record lacks reads as
\* undefined
property(record, key) == IF key \in DOMAIN record THEN record[key] ELSE Null

\* applyObjectMapping with a YAMLListModel as `model`: the store is
\* constructed on the file, updateOne(value) pushes the sub-record, appends it
\* to the file and returns it as it was handed in; onRelationSave is awaited
\* and the returned record's indexKey property is yielded
YAML_ApplyRelation ==
  /\ pc = "apply"
  /\ descriptorValue # Null
  /\ ~resolved[ki].unique
  /\ writesRelation
  /\ LET savedValue == descriptorValue IN
       /\ localAllItems' = Append(parse(file), descriptorValue)
       /\ file' = Append(file, stringify(descriptorValue))
       /\ creates' = Append(creates, descriptorValue)
       /\ upserts' = Append(upserts, [store |-> "related",
                                      instance |-> Len(stores) + 1,
                                      index |-> index,
                                      key |-> resolved[ki].key,
                                      data |-> descriptorValue, ok |-> TRUE,
                                      result |-> savedValue])
       /\ events' = Append(events, Event("save", "relation", index, sourceItem,
                                         Defined(descriptorValue),
                                         Defined(savedValue), NoError))
       /\ parts' = Append(parts, <<resolved[ki].key, property(savedValue, indexKey)>>)
  /\ AdvanceKey
  /\ stores' = construct("model", "applyObjectMapping")
  /\ UNCHANGED <<concurrency, fieldMapping, source, this_dryRun, dryRun, index,
                 sourceItem, mappedData, error, primaryData, relatedData,
                 yielded, queries, targetStore, mapping_targetStore, drawn,
                 reader, page, runVars>>

NextYAMLRelation ==
  \/ Start
  \/ DrawRecord
  \/ SourceDone
  \/ SourceThrows
  \/ ResolveField
  \/ ResolverThrows
  \/ ApplyNull
  \/ ApplyUnique
  \/ ApplyPlain
  \/ YAML_ApplyRelation
  \/ ApplyRelationFails
  \/ MapFieldsDone
  \/ Persist
  \/ PersistFails
  \/ Resume
  \/ Abandon
  \/ Catch

\* a migration whose related stores are file-backed
SpecYAMLRelation == Init /\ [][NextYAMLRelation]_vars

(* ------------- a target store that keeps its records per instance ------- *)

\* TableModel's `private mockData: T[] = []`: the records of an instance
\* that has just been constructed
mockData == <<>>

\* a run whose TargetModel keeps its records in the instance
InitPerInstance ==
  /\ Init
  /\ primaryData = mockData

\* applyObjectMapping: the `unique` branch, the store queried being a new
\* TargetModel() that holds its own records
ApplyUniquePerInstance ==
  /\ pc = "apply"
  /\ descriptorValue # Null
  /\ resolved[ki].unique
  /\ IF getList(mockData, resolved[ki].key, descriptorValue) # <<>>
       THEN /\ Throw("RangeError", "duplicate")
            /\ UNCHANGED <<fi, resolved, ki, parts>>
       ELSE /\ parts' = Append(parts, <<resolved[ki].key, descriptorValue>>)
            /\ AdvanceKey
            /\ UNCHANGED error
  /\ queries' = Append(queries, [instance |-> mapping_targetStore,
                                 index |-> index,
                                 key |-> resolved[ki].key,
                                 value |-> descriptorValue])
  /\ UNCHANGED <<yamlVars, runVars, concurrency, fieldMapping, source, this_dryRun,
                 dryRun, index, sourceItem, mappedData,
                 primaryData, relatedData, events, yielded, upserts>>
  /\ UNCHANGED <<stores, targetStore, mapping_targetStore, drawn>>

NextPerInstance ==
  \/ Start
  \/ DrawRecord
  \/ SourceDone
  \/ SourceThrows
  \/ ResolveField
  \/ ResolverThrows
  \/ ApplyNull
  \/ ApplyUniquePerInstance
  \/ ApplyPlain
  \/ ApplyRelation
  \/ ApplyRelationFails
  \/ MapFieldsDone
  \/ Persist
  \/ PersistFails
  \/ Resume
  \/ Abandon
  \/ Catch

\* a migration into a target store class with per-instance records
SpecPerInstance == InitPerInstance /\ [][NextPerInstance]_vars

(* ------------- several boot calls on one migrator ------------------------ *)

\* the boot calls made on one migrator, the first one included
MaxRuns == 3

\* the times the consumer turns back to a generator it has left waiting
MaxSwitches == 1

\* the option objects handed to boot: dryRun given, or left out
BootOptions == {[dryRun |-> TRUE], [dryRun |-> FALSE], EmptyObject}

\* the mappings that hold a descriptor with a related store
RelationSchemas ==
  {m \in Schemas : \E f \in DOMAIN m : \E j \in DOMAIN m[f].patch :
     m[f].patch[j].model /\ ~m[f].patch[j].unique}

\* the state private to the generator being advanced
Locals ==
  [run |-> run, dryRun |-> dryRun, pc |-> pc, index |-> index,
   sourceItem |-> sourceItem, mappedData |-> mappedData, error |-> error,
   fi |-> fi, resolved |-> resolved, ki |-> ki, parts |-> parts,
   source |-> source, drawn |-> drawn, yielded |-> yielded,
   targetStore |-> targetStore, mapping_targetStore |-> mapping_targetStore]

\* the generator waits for its consumer: it has not been advanced yet, stands
\* at a yield, or is through
Parked == pc \in {"created", "yielded", "done", "failed", "returned"}

\* one migrator, its first boot call made with the option given
InitRuns ==
  /\ Init
  /\ concurrency = 1
  /\ fieldMapping \in RelationSchemas
  /\ primaryData = <<>>

\* a further call boot(option) on the migrator: `{ dryRun = this.dryRun }` is
\* bound when the call is made, the body up to the first await runs when the
\* generator is advanced for the first time
Boot ==
  /\ Parked
  /\ Len(calls) < MaxRuns
  /\ \E option \in BootOptions :
       /\ dryRun' = IF "dryRun" \in DOMAIN option THEN option.dryRun ELSE this_dryRun
       /\ calls' = Append(calls, [option |-> option, dryRun |-> dryRun'])
  /\ run' = Len(calls) + 1
  /\ suspended' = Append(suspended, Locals)
  /\ pc' = "created"
  /\ index' = 0
  /\ sourceItem' = NoItem
  /\ mappedData' = Undefined
  /\ error' = NoError
  /\ fi' = 1
  /\ resolved' = <<>>
  /\ ki' = 1
  /\ parts' = <<>>
  /\ source' = "open"
  /\ drawn' = <<>>
  /\ yielded' = <<>>
  /\ targetStore' = 0
  /\ mapping_targetStore' = 0
  /\ UNCHANGED <<yamlVars, concurrency, fieldMapping, this_dryRun, primaryData,
                 relatedData, events, upserts, stores, queries, switches>>

\* the consumer turns to another generator and will call its next()
Switch ==
  /\ Parked
  /\ switches < MaxSwitches
  /\ switches' = switches + 1
  /\ \E i \in DOMAIN suspended :
       /\ suspended[i].pc \in {"created", "yielded"}
       /\ suspended' = [suspended EXCEPT ![i] = Locals]
       /\ run' = suspended[i].run
       /\ dryRun' = suspended[i].dryRun
       /\ pc' = suspended[i].pc
       /\ index' = suspended[i].index
       /\ sourceItem' = suspended[i].sourceItem
       /\ mappedData' = suspended[i].mappedData
       /\ error' = suspended[i].error
       /\ fi' = suspended[i].fi
       /\ resolved' = suspended[i].resolved
       /\ ki' = suspended[i].ki
       /\ parts' = suspended[i].parts
       /\ source' = suspended[i].source
       /\ drawn' = suspended[i].drawn
       /\ yielded' = suspended[i].yielded
       /\ targetStore' = suspended[i].targetStore
       /\ mapping_targetStore' = suspended[i].mapping_targetStore
  /\ UNCHANGED <<yamlVars, concurrency, fieldMapping, this_dryRun, primaryData,
                 relatedData, events, upserts, stores, queries, calls>>

\* the source, the resolvers, the stores and the consumer play along: nothing
\* throws but the duplicate guard, and no generator is returned early
NextRuns ==
  \/ Start
  \/ DrawRecord
  \/ SourceDone
  \/ ResolveField
  \/ ApplyNull
  \/ ApplyUnique
  \/ ApplyPlain
  \/ ApplyRelation
  \/ MapFieldsDone
  \/ Persist
  \/ Resume
  \/ Catch
  \/ Boot
  \/ Switch

\* one migrator whose boot is called several times, the generators being
\* advanced in turn
SpecRuns == InitRuns /\ [][NextRuns]_vars

(* ------------- a source of finitely many records ------------------------- *)

\* the arrays handed to streamOf
Sources == UNION {[1..n -> Records] : n \in 0..MaxRecords}

\* a migrator whose dataSource is streamOf(items): `source` holds the items
\* the stream has not handed out yet
InitFinite ==
  /\ concurrency \in Concurrencies
  /\ fieldMapping \in Schemas
  /\ source \in Sources
  /\ this_dryRun = FALSE
  /\ dryRun \in BOOLEAN
  /\ pc = "created"
  /\ index = 0
  /\ sourceItem = NoItem
  /\ mappedData = Undefined
  /\ error = NoError
  /\ fi = 1
  /\ resolved = <<>>
  /\ ki = 1
  /\ parts = <<>>
  /\ primaryData \in SeededStores
  /\ relatedData = <<>>
  /\ events = <<>>
  /\ yielded = <<>>
  /\ upserts = <<>>
  /\ stores = <<>>
  /\ queries = <<>>
  /\ targetStore = 0
  /\ mapping_targetStore = 0
  /\ drawn = <<>>
  /\ file = <<>>
  /\ localAllItems = <<>>
  /\ creates = <<>>
  /\ reader = [open |-> FALSE, items |-> <<>>]
  /\ page = [asked |-> FALSE]
  /\ suspended = <<>>
  /\ calls = <<[option |-> [dryRun |-> dryRun], dryRun |-> dryRun]>>
  /\ run = 1
  /\ switches = 0

\* for await takes the next item of streamOf(items); mapFields(sourceItem,
\* ++index) is created and Array.fromAsync starts to iterate it
StreamNext ==
  /\ pc = "draw"
  /\ source # <<>>
  /\ sourceItem' = Head(source)
  /\ source' = Tail(source)
  /\ drawn' = Append(drawn, Head(source))
  /\ index' = index + 1
  /\ mappedData' = Undefined
  /\ error' = NoError
  /\ parts' = <<>>
  /\ fi' = 1
  /\ ki' = 1
  /\ resolved' = <<>>
  /\ pc' = "resolve"
  /\ UNCHANGED <<yamlVars, runVars, concurrency, fieldMapping, this_dryRun,
                 dryRun, primaryData, relatedData, events, yielded, upserts>>
  /\ UNCHANGED <<stores, queries, targetStore, mapping_targetStore>>

\* streamOf has handed out its last item: the for await ends and boot returns
StreamDone ==
  /\ pc = "draw"
  /\ source = <<>>
  /\ pc' = "done"
  /\ UNCHANGED <<yamlVars, runVars, concurrency, fieldMapping, source,
                 this_dryRun, dryRun, index, sourceItem, mappedData,
                 error, fi, resolved, ki, parts, primaryData, relatedData, events,
                 yielded, upserts>>
  /\ UNCHANGED <<stores, queries, targetStore, mapping_targetStore, drawn>>

\* the source does not throw and the consumer calls next() until done
NextFinite ==
  \/ Start
  \/ StreamNext
  \/ StreamDone
  \/ ResolveField
  \/ ResolverThrows
  \/ ApplyNull
  \/ ApplyUnique
  \/ ApplyPlain
  \/ ApplyRelation
  \/ ApplyRelationFails
  \/ MapFieldsDone
  \/ Persist
  \/ PersistFails
  \/ Resume
  \/ Catch

\* every awaited call settles and the consumer keeps pulling: a step that can
\* be taken is taken
SpecFinite == InitFinite /\ [][NextFinite]_vars /\ WF_vars(NextFinite)

(* ----------------------------- claims ----------------------------------- *)

Range(seq) == {seq[j] : j \in DOMAIN seq}

\* the primary store's updateOne calls that returned a record
PrimaryOk == SelectSeq(upserts, LAMBDA u : u.store = "primary" /\ u.ok)

\* the indexes of the records delivered to the consumer
YieldedIndexes == {yielded[j].index : j \in DOMAIN yielded}

\* the skip and error calls made from boot's catch block
RecordFailures == {e \in Range(events) : e.level = "record" /\ e.chan \in {"skip", "error"}}

\* the record-level notifications of a duplicate found by the uniqueness guard
DuplicateReports == {e \in Range(events) : e.level = "record" /\ e.error.cause = "duplicate"}

\* C1: in a run that is not a dry run, the yielded sequence is exactly the
\* sequence of records returned by the successful primary updateOne calls, in
\* source order, and no record reported as skipped or errored from boot's
\* catch block is among them.
C1_YieldedArePersisted ==
  ~dryRun =>
    /\ Len(yielded) = Len(PrimaryOk)
    /\ \A j \in DOMAIN yielded :
         /\ yielded[j].item = PrimaryOk[j].result
         /\ yielded[j].index = PrimaryOk[j].index
    /\ \A j, k \in DOMAIN yielded : j < k => yielded[j].index < yielded[k].index
    /\ \A e \in RecordFailures : e.index \notin YieldedIndexes

\* a finished run whose first record failed and whose second was persisted
C1_Witness ==
  /\ ~dryRun
  /\ pc = "done"
  /\ Len(yielded) = 1
  /\ yielded[1].index = 2
  /\ yielded[1].item \in Range(primaryData)
  /\ \E e \in RecordFailures : e.index = 1

\* C2: a skip notification is emitted only for a duplicate found by the
\* uniqueness guard; a failure of a resolver, of a related store's updateOne or
\* of the primary store's updateOne is reported on the error channel, whatever
\* the kind of the exception.
C2_SkipOnlyForDuplicate ==
  \A e \in Range(events) :
    /\ e.chan = "skip" => e.error.cause = "duplicate"
    /\ e.error.cause \in {"resolver", "relation", "primary"} => e.chan = "error"

\* C3: a record for which the uniqueness guard found its value in the primary
\* store gets a skip notification, no save notification carries its index, and
\* it is not yielded, wherever the unique field is declared.
C3_DuplicateSkippedWithoutSave ==
  \A e \in DuplicateReports :
    /\ e.chan = "skip"
    /\ \A s \in Range(events) : s.chan = "save" => s.index # e.index
    /\ e.index \notin YieldedIndexes

\* C4: no updateOne call, on the primary store or on a related store, is made
\* for a record for which the uniqueness guard found a duplicate.
C4_NoWriteOnDuplicate ==
  \A e \in DuplicateReports : \A u \in Range(upserts) : u.index # e.index

\* C5: in a dry run no store's updateOne is ever called and no store changes.
C5_DryRunWritesNothing ==
  dryRun =>
    /\ upserts = <<>>
    /\ relatedData = <<>>
    /\ primaryData \in SeededStores

\* a dry run that went through two records with a related-store descriptor
C5_Witness ==
  /\ dryRun
  /\ Len(yielded) = 2
  /\ \A y \in Range(yielded) : "k2" \in DOMAIN y.item /\ "name" \in DOMAIN y.item.k2

\* applyObjectMapping stands at a descriptor that names a related store, with
\* a value, in a run that is not a dry run
AtRelationDescriptor ==
  /\ pc = "apply"
  /\ resolved[ki].model
  /\ descriptorValue # Null
  /\ ~dryRun

\* the step calls the related store's updateOne once, with the descriptor's
\* value, and on success contributes the saved record's indexKey value, which
\* is not the sub-record, to the patch
RelatedUpsertStep ==
  /\ Len(upserts') = Len(upserts) + 1
  /\ LET call == upserts'[Len(upserts')] IN
       /\ call.store = "related"
       /\ call.index = index
       /\ call.data = descriptorValue
       /\ call.ok =>
            /\ parts' = Append(parts, <<resolved[ki].key, call.result[indexKey]>>)
            /\ call.result[indexKey] # descriptorValue

\* the field a successful related write stands for holds, in the data handed
\* to the primary store for the same record, the saved record's indexKey value
ForeignKeysPassed ==
  \A u \in Range(upserts) : \A r \in Range(upserts) :
    (u.store = "primary" /\ r.store = "related" /\ r.ok /\ r.index = u.index) =>
      /\ r.key \in DOMAIN u.data
      /\ u.data[r.key] = r.result[indexKey]
      /\ u.data[r.key] # r.data

\* C6 as stated: every descriptor naming a related store (not a dry run, value
\* not null) makes one updateOne call on the related store, and on success the
\* field handed to the primary store is the saved record's indexKey value.
C6_RelatedUpsertPerOccurrence ==
  /\ [][AtRelationDescriptor => RelatedUpsertStep]_vars
  /\ []ForeignKeysPassed

\* C6 amended: the same for every such descriptor that is not also flagged
\* unique; a sub-record equal to one already saved is written again.
C6_RelatedUpsertUnlessUnique ==
  /\ [][(AtRelationDescriptor /\ ~resolved[ki].unique) => RelatedUpsertStep]_vars
  /\ []ForeignKeysPassed

\* two records with the same sub-record were written to the related store
\* twice, and the second's foreign key went to the primary store
C6_Witness ==
  /\ Len(relatedData) = 2
  /\ \A k \in {"name", "email"} : relatedData[1][k] = relatedData[2][k]
  /\ relatedData[1][indexKey] # relatedData[2][indexKey]
  /\ \E u \in Range(PrimaryOk) :
       /\ u.index = 2
       /\ "k2" \in DOMAIN u.data
       /\ u.data.k2 = relatedData[2][indexKey]

\* the step is a related store's updateOne that threw
RelatedUpsertFailed ==
  /\ Len(upserts') = Len(upserts) + 1
  /\ upserts'[Len(upserts')].store = "related"
  /\ ~upserts'[Len(upserts')].ok

\* C7: when a related store's updateOne throws, one notification about the
\* relation is emitted through onRelationError, nothing is contributed to the
\* patch for that field, the record is not aborted (the failure never reaches
\* boot's catch block), and the data handed to the primary store lacks the field.
C7_RelationFailureAbsorbed ==
  /\ [][RelatedUpsertFailed =>
          /\ Len(events') = Len(events) + 1
          /\ LET e == events'[Len(events')] IN
               /\ e.level = "relation"
               /\ e.chan \in {"skip", "error"}
               /\ e.index = index
               /\ e.mappedData = Defined(descriptorValue)
               /\ e.error.cause = "relation"
          /\ parts' = parts
          /\ pc' \in {"apply", "resolve"}
          /\ error' = error]_vars
  /\ [](\A e \in RecordFailures : e.error.cause # "relation")
  /\ [](error.cause # "relation")
  /\ [](\A u \in Range(upserts) : \A r \in Range(upserts) :
          (u.store = "primary" /\ r.store = "related" /\ ~r.ok /\ r.index = u.index)
            => r.key \notin DOMAIN u.data)

\* a record whose related write failed was persisted with its other field and
\* yielded
C7_Witness ==
  \E r \in Range(upserts) : \E y \in Range(yielded) : \E e \in Range(events) :
    /\ r.store = "related" /\ ~r.ok
    /\ e.level = "relation" /\ e.chan = "error" /\ e.index = r.index
    /\ y.index = r.index
    /\ y.item \in Range(primaryData)
    /\ r.key \notin DOMAIN y.item
    /\ "k1" \in DOMAIN y.item

\* C8: after the catch block reported a skipped or errored record, boot goes
\* back to drawing from the source; the consumer sees an exception only when
\* the source supplier threw.
C8_FailureDoesNotAbortRun ==
  /\ [][pc = "catch" =>
          /\ pc' = "draw"
          /\ source' = source
          /\ index' = index
          /\ yielded' = yielded]_vars
  /\ [](pc = "failed" => source = "threw")

\* the second record is being processed after the first was skipped or errored
C8_Witness ==
  /\ index = 2
  /\ pc = "apply"
  /\ \E e \in RecordFailures : e.index = 1
  /\ 1 \notin YieldedIndexes

\* the records whose processing is over
Finished(i) == i < index \/ pc \in {"draw", "done", "failed", "returned"}

\* the skip and error notifications that carry index i
FailureNotices(i) ==
  {j \in DOMAIN events : events[j].index = i /\ events[j].chan \in {"skip", "error"}}

\* C9 as stated: a record whose processing failed gets exactly one skip or
\* error notification carrying its index.
C9_OneNoticePerFailedRecord ==
  \A i \in 1..index :
    (Finished(i) /\ i \notin YieldedIndexes) => Cardinality(FailureNotices(i)) = 1

\* C9 amended: a record whose processing failed gets exactly one skip or error
\* notification from boot's catch block; the notifications of related writes
\* that failed earlier in the same record carry the same index and come
\* before it.
C9_OneRecordNoticePerFailedRecord ==
  \A i \in 1..index :
    (Finished(i) /\ i \notin YieldedIndexes) =>
      /\ Cardinality({j \in FailureNotices(i) : events[j].level = "record"}) = 1
      /\ \A j, k \in FailureNotices(i) :
           (events[j].level = "relation" /\ events[k].level = "record") => j < k

\* a failed record with a relation notice and its one record notice
C9_Witness ==
  \E i \in 1..index :
    /\ Finished(i)
    /\ i \notin YieldedIndexes
    /\ Cardinality(FailureNotices(i)) = 2
    /\ \E j \in FailureNotices(i) : events[j].level = "relation"

\* C10: when the source supplier throws, boot ends with that exception: no
\* notification is emitted for it, nothing more is yielded, and no further
\* step is taken.
C10_SourceErrorPropagates ==
  /\ [][(source = "open" /\ source' = "threw") =>
          /\ pc' = "failed"
          /\ events' = events
          /\ yielded' = yielded]_vars
  /\ [][source # "threw"]_vars
  /\ [](source = "threw" => pc = "failed")

\* the source threw after a record had been processed and reported
C10_Witness ==
  /\ source = "threw"
  /\ pc = "failed"
  /\ index >= 1
  /\ Len(events) >= 1

\* the notification a step hands to the event bus, if it hands one
Emitted == IF events' # events THEN {events'[Len(events')]} ELSE {}

\* C11: the index is the number of records drawn from the source so far (1 for
\* the first record, one more for each record drawn, whatever became of the
\* earlier ones), and every notification, record-level or relation-level,
\* carries the index and the source record of the record being processed.
C11_IndexCountsDrawnRecords ==
  /\ [](index = Len(drawn))
  /\ [](\A e \in Range(events) :
          e.index \in 1..Len(drawn) /\ e.sourceItem = drawn[e.index])
  /\ [][\A e \in Emitted : e.index = Len(drawn) /\ drawn' = drawn]_vars

\* C11 witness: the first record failed and a relation-level notification of
\* the second record carries index 2
C11_Witness ==
  /\ \E e \in RecordFailures : e.index = 1
  /\ \E e \in Range(events) : e.level = "relation" /\ e.index = 2

\* the record-level save notifications
RecordSaves == {e \in Range(events) : e.level = "record" /\ e.chan = "save"}

\* C12 as stated: in a run that is not a dry run, when a record has been
\* delivered to the consumer, the save notification of that record has been
\* emitted already (persist, then save, then yield).
C12_SaveEmittedBeforeYield ==
  ~dryRun => \A y \in Range(yielded) : \E e \in RecordSaves : e.index = y.index

\* C13 as stated: when the consumer has returned the generator at a yield, the
\* save notification of the record it was handed (a persisted record) has
\* been emitted all the same.
C13_SaveEmittedAfterAbandon ==
  (pc = "returned" /\ ~dryRun) =>
    \A u \in Range(PrimaryOk) : \E e \in RecordSaves : e.index = u.index

\* the error notification a step emits from boot's catch block, if it emits one
ErrorEmitted == {e \in Emitted : e.level = "record" /\ e.chan = "error"}

\* C14 as stated: the error notification of a failed record carries the
\* entries resolved before the failure, which is the complete merged patch
\* when the primary upsert failed.
C14_ErrorCarriesResolvedFields ==
  [][\A e \in ErrorEmitted : e.mappedData.data = fromEntries(parts)]_vars

\* C14, amended: the error notification of a failed record carries no
\* mappedData when a resolver or a mapping step failed, whatever had been
\* resolved before, and the complete merged patch, the one handed to the
\* primary upsert, when the primary upsert failed.
C14_ErrorCarriesPatchOnlyAfterMapping ==
  [][\A e \in ErrorEmitted :
       IF e.error.cause = "primary"
         THEN /\ e.mappedData = Defined(fromEntries(parts))
              /\ upserts[Len(upserts)].data = e.mappedData.data
              /\ upserts[Len(upserts)].store = "primary"
         ELSE e.mappedData = Undefined]_vars

\* C14 witness: a resolver failed after an earlier field had been mapped, and
\* the error notification carries no mappedData
C14_Witness ==
  /\ pc = "draw"
  /\ parts # <<>>
  /\ events # <<>>
  /\ LET e == events[Len(events)]
     IN /\ e.level = "record" /\ e.chan = "error" /\ e.index = index
        /\ e.error.cause = "resolver"
        /\ e.mappedData = Undefined

\* the schema maps every source field with a string
StringOnly == \A f \in DOMAIN fieldMapping : fieldMapping[f].kind = "string"

\* the fields of the schema declared for target field k whose source value in
\* row is neither null nor undefined
DeclaredFor(k, row) ==
  {f \in DOMAIN fieldMapping :
     /\ \E j \in DOMAIN fieldMapping[f].patch : fieldMapping[f].patch[j].key = k
     /\ row[fieldMapping[f].src] # Null}

\* the target fields named anywhere in the schema
TargetFields ==
  UNION {{fieldMapping[f].patch[j].key : j \in DOMAIN fieldMapping[f].patch} :
           f \in DOMAIN fieldMapping}

\* the primary store's updateOne calls
PrimaryUpserts == {u \in Range(upserts) : u.store = "primary"}

\* C15: with a schema of string mappings only, the patch handed to the primary
\* store holds, for each declared target field, the raw value of a source
\* field it is declared under, and no other key; a target field whose source
\* value is null or undefined is left out.
C15_StringMappingProjects ==
  StringOnly =>
    \A u \in PrimaryUpserts :
      LET row == drawn[u.index] IN
        /\ DOMAIN u.data = {k \in TargetFields : DeclaredFor(k, row) # {}}
        /\ \A k \in DOMAIN u.data :
             \E f \in DeclaredFor(k, row) : u.data[k] = row[fieldMapping[f].src]

\* C15 witness: a string-only schema has handed the primary store one patch
\* with both target fields and one where the null source field is left out
C15_Witness ==
  /\ StringOnly
  /\ \E u \in PrimaryUpserts :
       DOMAIN u.data = {"k1", "k2"} /\ u.data.k2 = drawn[u.index].f2
  /\ \E u \in PrimaryUpserts :
       DOMAIN u.data = {"k1"} /\ drawn[u.index].f2 = Null

\* the merged patches of the run: what boot handed to the primary store, or
\* yielded in a dry run
MergedPatches ==
  {[index |-> u.index, data |-> u.data] : u \in PrimaryUpserts}
    \cup (IF dryRun THEN {[index |-> y.index, data |-> y.item] : y \in Range(yielded)}
                    ELSE {})

\* the target fields the descriptors of field f name
KeysOf(f) == {fieldMapping[f].patch[j].key : j \in DOMAIN fieldMapping[f].patch}

\* field f is mapped by a resolver that returns plain descriptors for two
\* target fields
OneToMany(f) ==
  LET m == fieldMapping[f] IN
    /\ m.kind = "function"
    /\ Len(m.patch) = 2
    /\ m.patch[1].key # m.patch[2].key
    /\ \A j \in DOMAIN m.patch : ~m.patch[j].unique /\ ~m.patch[j].model

\* C16: a resolver declared on one source field that returns values for two
\* target fields puts exactly those two entries in the merged patch, each with
\* the value the resolver computed from the whole source record, whatever the
\* other fields of the schema contribute.
C16_ResolverOneToMany ==
  \A f \in DOMAIN fieldMapping :
    OneToMany(f) =>
      \A p \in MergedPatches :
        LET row    == drawn[p.index]
            m      == fieldMapping[f]
            others == UNION {KeysOf(g) : g \in DOMAIN fieldMapping \ {f}}
        IN /\ KeysOf(f) \subseteq DOMAIN p.data
           /\ DOMAIN p.data \subseteq KeysOf(f) \cup others
           /\ \A j \in DOMAIN m.patch :
                LET returned == EvalValue(m.patch[j].val, row, m.src) IN
                  (returned # Null /\ m.patch[j].key \notin others) =>
                    p.data[m.patch[j].key] = returned

\* C16 witness: the resolver of f1 has put k1, combined from f1 and f2, and k3
\* in a patch handed to the primary store, next to the k2 of the field f2
C16_Witness ==
  /\ \E f \in DOMAIN fieldMapping : OneToMany(f)
  /\ \E u \in PrimaryUpserts :
       /\ DOMAIN u.data = {"k1", "k2", "k3"}
       /\ u.data.k1 = Concat(Val(1), Val(2))
       /\ u.data.k3 = Val(1)

\* the value field f resolves for target field k from row (f names k once and
\* with a plain descriptor)
Contribution(f, k, row) ==
  LET m == fieldMapping[f]
      j == CHOOSE j \in DOMAIN m.patch : m.patch[j].key = k
      v == EvalValue(m.patch[j].val, row, m.src)
  IN IF v = Null THEN row[m.src] ELSE v

\* the source fields that resolve a value into target field k for row
Contributors(k, row) ==
  {f \in DOMAIN fieldMapping : k \in KeysOf(f) /\ Contribution(f, k, row) # Null}

\* every descriptor of target field k is a plain one
PlainTarget(k) ==
  \A f \in DOMAIN fieldMapping : \A j \in DOMAIN fieldMapping[f].patch :
    fieldMapping[f].patch[j].key = k =>
      ~fieldMapping[f].patch[j].unique /\ ~fieldMapping[f].patch[j].model

\* C17: when two source fields resolve a value into the same target field, the
\* merged patch holds the value of the field declared later in the schema.
C17_LaterFieldWins ==
  \A p \in MergedPatches : \A k \in DOMAIN p.data :
    LET row == drawn[p.index]
        fs  == Contributors(k, row)
    IN (PlainTarget(k) /\ Cardinality(fs) >= 2) =>
         \E f \in fs : /\ \A g \in fs : g <= f
                       /\ p.data[k] = Contribution(f, k, row)

\* C17 witness: f1 and f2 are both mapped to k1, the record has 1 and 2 in
\* them, and the patch handed to the primary store holds the 2 of f2
C17_Witness ==
  \E u \in PrimaryUpserts :
    /\ Contributors("k1", drawn[u.index]) = {1, 2}
    /\ drawn[u.index].f1 = Val(1)
    /\ u.data.k1 = Val(2)

\* applyObjectMapping stands at a descriptor that names no value
AtOmittedValue == pc = "apply" /\ fieldMapping[fi].patch[ki].val = "omitted"

\* the raw value of the source field the mapping is declared under
RawValue == sourceItem[fieldMapping[fi].src]

\* the related store's updateOne calls
RelatedUpserts == {u \in Range(upserts) : u.store = "related"}

\* C18: a descriptor without a value works on the raw value of its source
\* field: that value is what the uniqueness query looks for, what the related
\* store is handed and, unless a related record's key replaces it, what the
\* patch gets. When the raw value is null or undefined the step queries
\* nothing, writes nothing, reports nothing and adds no entry, so the target
\* field is left out of the merged patch.
C18_OmittedValueIsRawValue ==
  /\ [][AtOmittedValue =>
          IF RawValue = Null
            THEN /\ UNCHANGED <<parts, queries, upserts, stores, events,
                                primaryData, relatedData>>
                 /\ pc' # "catch"
            ELSE /\ queries' # queries =>
                      /\ queries'[Len(queries')].key = resolved[ki].key
                      /\ queries'[Len(queries')].value = RawValue
                 /\ upserts' # upserts => upserts'[Len(upserts')].data = RawValue
                 /\ (parts' # parts /\ upserts' = upserts) =>
                      parts' = Append(parts, <<resolved[ki].key, RawValue>>)
                 /\ (resolved[ki].unique /\ pc' # "catch") => parts' # parts]_vars
  /\ [](\A p \in MergedPatches : \A k \in DOMAIN p.data :
          /\ p.data[k] # Null
          /\ Contributors(k, drawn[p.index]) # {})

\* C18 witness: the record has no f3, the schema maps f3 with a unique
\* descriptor and with a related-store descriptor that name no value, and the
\* primary store got a patch without their fields, no query and no related
\* upsert having been made for the record
C18_Witness ==
  \E u \in PrimaryUpserts :
    /\ drawn[u.index].f3 = Null
    /\ \E f \in DOMAIN fieldMapping :
         /\ fieldMapping[f].src = "f3"
         /\ \E j \in DOMAIN fieldMapping[f].patch :
              fieldMapping[f].patch[j].val = "omitted" /\ fieldMapping[f].patch[j].unique
         /\ \E j \in DOMAIN fieldMapping[f].patch :
              fieldMapping[f].patch[j].val = "omitted" /\ fieldMapping[f].patch[j].model
         /\ KeysOf(f) \cap DOMAIN u.data = {}
    /\ \A q \in Range(queries) : q.index # u.index
    /\ \A r \in RelatedUpserts : r.index # u.index

\* the instances of the primary store's class constructed so far
PrimaryInstances == {i \in DOMAIN stores : stores[i].class = "TargetModel"}

\* the instances of related stores' classes constructed so far
RelatedInstances == {i \in DOMAIN stores : stores[i].class = "model"}

\* C19 as stated: a boot run constructs one instance of the primary store, and
\* every uniqueness query and every primary upsert goes through that instance;
\* each related upsert goes through a related-store instance of its own.
C19_OnePrimaryStoreInstance ==
  /\ Cardinality(PrimaryInstances) <= 1
  /\ \A q \in Range(queries) : q.instance = targetStore
  /\ \A u \in PrimaryUpserts : u.instance = targetStore
  /\ \A u \in RelatedUpserts : u.instance \in RelatedInstances
  /\ \A i, j \in DOMAIN upserts :
       (upserts[i].store = "related" /\ upserts[j].store = "related" /\ i # j) =>
         upserts[i].instance # upserts[j].instance

\* everything the run owes to record i has happened: it was reported as
\* failed, or it was yielded and, in a run that is not a dry run, reported as
\* saved
Settled(i) ==
  \/ \E e \in RecordFailures : e.index = i
  \/ /\ i \in YieldedIndexes
     /\ dryRun \/ \E e \in RecordSaves : e.index = i

\* C20: records are processed one at a time in source order. When the source
\* is asked for the next record, the record before it has been yielded and
\* reported, or reported as failed; from then on nothing is emitted or yielded
\* for it, so that notifications and yielded records follow the source order.
C20_OneRecordAtATime ==
  /\ [][drawn' # drawn => \A i \in 1..Len(drawn) : Settled(i)]_vars
  /\ [][(events' # events \/ yielded' # yielded) =>
          /\ drawn' = drawn
          /\ \A e \in Emitted : e.sourceItem = drawn[Len(drawn)]
          /\ yielded' # yielded => yielded'[Len(yielded')].index = Len(drawn)]_vars
  /\ [](\A i, j \in DOMAIN events : i < j => events[i].index <= events[j].index)
  /\ [](\A i, j \in DOMAIN yielded : i < j => yielded[i].index < yielded[j].index)

\* C20 witness: two records have been persisted, yielded and reported as
\* saved, the first before the second
C20_Witness ==
  /\ ~dryRun
  /\ Len(drawn) = 2
  /\ Len(yielded) = 2
  /\ \E i, j \in DOMAIN events :
       /\ i < j
       /\ events[i].level = "record" /\ events[i].chan = "save" /\ events[i].index = 1
       /\ events[j].level = "record" /\ events[j].chan = "save" /\ events[j].index = 2

\* record i has its outcome: it was yielded, or reported as skipped or failed
HasOutcome(i) == i \in YieldedIndexes \/ \E e \in RecordFailures : e.index = i

\* the records drawn from the source that have no outcome yet
InFlight == {i \in 1..Len(drawn) : ~HasOutcome(i)}

\* the records of the window the next record drawn belongs to, the source
\* being read in windows of `concurrency` records
CurrentWindow == {i \in 1..Len(drawn) : i > Len(drawn) - (Len(drawn) % concurrency)}

\* C21 as stated: with concurrency N > 1 the records of a window are drawn
\* and processed together: a record that joins a window is drawn while the
\* records already in that window are still in flight; indexes follow the
\* draw order, and the first record of a window is drawn when every record
\* of the window before has its outcome.
C21_WindowProcessedConcurrently ==
  /\ [][drawn' # drawn =>
          /\ index' = Len(drawn')
          /\ \A i \in CurrentWindow : i \in InFlight
          /\ \A i \in 1..Len(drawn) : i \notin CurrentWindow => HasOutcome(i)]_vars
  /\ [](Cardinality(InFlight) <= concurrency)

\* C21, amended: whatever `concurrency` the caller puts in the options, one
\* record at most is in flight: a record is drawn only when every record
\* drawn before has its outcome, and its index is its position in the draw
\* order.
C21_ConcurrencyIgnored ==
  /\ [](Cardinality(InFlight) <= 1)
  /\ [][drawn' # drawn =>
          /\ index' = Len(drawn')
          /\ InFlight = {}
          /\ InFlight' = {Len(drawn')}]_vars

\* C21 witness: boot was called with concurrency 2 and draws the second
\* record when the first one has been yielded
C21_Witness ==
  /\ concurrency = 2
  /\ Len(drawn) = 2
  /\ pc = "resolve"
  /\ InFlight = {2}
  /\ 1 \in YieldedIndexes

\* the items yielded for record i
YieldsOf(i) == {j \in DOMAIN yielded : yielded[j].index = i}

\* the patch the schema describes for row, read off the schema: each target
\* field some source field resolves a value into, with the value of the last
\* such field, a sub-record staying a sub-record
WouldBePatch(row) ==
  [k \in {t \in TargetFields : Contributors(t, row) # {}} |->
     Contribution(CHOOSE f \in Contributors(k, row) :
                    \A g \in Contributors(k, row) : g <= f, k, row)]

\* C22 as stated: a dry run yields exactly one item for every source record
\* drawn, the merged patch with the sub-records in its relation fields.
C22_DryRunYieldsEveryRecord ==
  dryRun =>
    /\ \A i \in 1..Len(drawn) : Finished(i) => Cardinality(YieldsOf(i)) = 1
    /\ \A y \in Range(yielded) : y.item = WouldBePatch(drawn[y.index])

\* C22, amended: a dry run yields exactly one item for every source record
\* whose patch was constructed, and none for a record that was reported as
\* skipped or failed; the item is the merged patch with the sub-records in
\* its relation fields, and the primary store has not been handed it.
C22_DryRunYieldsConstructedPatches ==
  dryRun =>
    /\ \A i \in 1..Len(drawn) :
         Finished(i) =>
           Cardinality(YieldsOf(i)) = (IF FailureNotices(i) = {} THEN 1 ELSE 0)
    /\ \A y \in Range(yielded) : y.item = WouldBePatch(drawn[y.index])
    /\ PrimaryUpserts = {}

\* C22 witness: a dry run has yielded a patch whose relation field holds the
\* sub-record, and has yielded nothing for a record that failed
C22_Witness ==
  /\ dryRun
  /\ pc = "draw"
  /\ \E y \in Range(yielded) : \E k \in DOMAIN y.item :
       /\ ~PlainTarget(k)
       /\ y.item[k] = SubRecord(drawn[y.index].f1, drawn[y.index].f2)
  /\ \E i \in 1..Len(drawn) : FailureNotices(i) # {} /\ YieldsOf(i) = {}

\* C23 as stated: in a dry run, a record whose patch was constructed and
\* yielded has, once the run is through with it, a save notification.
C23_DryRunReportsSave ==
  dryRun =>
    \A y \in Range(yielded) :
      Finished(y.index) => \E e \in RecordSaves : e.index = y.index

\* C23, amended: in a dry run, a record whose patch was constructed is
\* yielded and the observer hears nothing of it: no save notification is
\* emitted in a dry run, and no notification at all carries the index of a
\* yielded record.
C23_DryRunEmitsNoSave ==
  dryRun =>
    /\ \A e \in Range(events) : e.chan # "save" /\ e.index \notin YieldedIndexes
    /\ \A i \in 1..Len(drawn) :
         (Finished(i) /\ FailureNotices(i) = {}) => i \in YieldedIndexes

\* C23 witness: a dry run is over, two patches were yielded and the observer
\* has received nothing
C23_Witness ==
  /\ dryRun
  /\ pc = "done"
  /\ Len(yielded) = 2
  /\ events = <<>>

\* C24 as stated: an exception of an observer callback is not caught by the
\* engine: no notification reports it, and it ends the run in the hands of
\* boot's consumer.
C24_ObserverExceptionPropagates ==
  /\ \A e \in Range(events) : e.error.cause # "observer"
  /\ error.cause = "observer" => pc = "failed"

\* the items whose every filtered field holds exactly the filter's value
ExactMatches(items, filter) ==
  SelectSeq(items, LAMBDA item :
    \A key \in DOMAIN filter : key \in DOMAIN item /\ item[key] = filter[key])

\* C25 as stated: loadPage counts and pages exactly the items whose every
\* filtered field equals the filter's value; asked for one item, as the
\* uniqueness check does, it returns one only when a record holds exactly
\* that value.
C25_LoadPageExactMatch ==
  page.asked =>
    LET matching == ExactMatches(reader.items, page.filter) IN
      /\ page.result.totalCount = Len(matching)
      /\ page.result.pageData =
           slice(matching, (page.pageIndex - 1) * page.pageSize,
                 page.pageIndex * page.pageSize)

\* C26: the records created through a file-backed store can be read back: a
\* store constructed on the same file holds the records handed to updateOne
\* without id up to then, in call order and with the same field values, and
\* its first page of ten lists them.
C26_CreatedRecordsReadBack ==
  /\ parse(file) = creates
  /\ reader.open => reader.items = SubSeq(creates, 1, Len(reader.items))
  /\ (page.asked /\ page.filter = EmptyObject /\ page.pageIndex = 1 /\ page.pageSize = 10) =>
       page.result.pageData = reader.items

\* C26 witness: two records were created, one with the string "1" and one
\* with the number 1 as name, and a store constructed afterwards lists both
C26_Witness ==
  /\ Len(creates) = 2
  /\ creates[1].name = Text(<<"1">>)
  /\ creates[2].name = Val(1)
  /\ reader.open
  /\ page.asked
  /\ page.filter = EmptyObject
  /\ page.pageSize = 10
  /\ page.pageIndex = 1
  /\ page.result.pageData = creates

\* the step makes a uniqueness query or calls a related store's updateOne
GuardOrRelationStep ==
  \/ queries' # queries
  \/ /\ upserts' # upserts
     /\ upserts'[Len(upserts')].store = "related"

\* C27 as stated: a uniqueness query or a related upsert of a record is made
\* when the mappings of all the declared fields have been resolved, so that a
\* record whose resolver failed has no related record written for it.
C27_ResolveAllBeforeWrites ==
  /\ [][GuardOrRelationStep => fi = Len(fieldMapping)]_vars
  /\ [](\A e \in RecordFailures :
          e.error.cause = "resolver" =>
            \A u \in RelatedUpserts : u.index # e.index)

\* the step is a related store's updateOne that returned a record
RelatedUpsertDone ==
  /\ Len(upserts') = Len(upserts) + 1
  /\ upserts'[Len(upserts')].store = "related"
  /\ upserts'[Len(upserts')].ok

\* the relation-level save notifications
RelationSaves == {j \in DOMAIN events : events[j].level = "relation" /\ events[j].chan = "save"}

\* C28: a related store's updateOne that returns a record is followed by one
\* notification, on the save channel, whose targetItem is the returned record
\* and whose mappedData is the sub-record; the parent record's primary upsert
\* and the parent's own save notification come after it.
C28_RelationSaveNotified ==
  /\ [][RelatedUpsertDone =>
          LET call == upserts'[Len(upserts')] IN
            /\ events' = Append(events, events'[Len(events')])
            /\ events'[Len(events')].chan = "save"
            /\ events'[Len(events')].index = call.index
            /\ events'[Len(events')].mappedData = Defined(call.data)
            /\ events'[Len(events')].targetItem = Defined(call.result)
            /\ \A u \in PrimaryUpserts : u.index # call.index
            /\ \A e \in RecordSaves : e.index # call.index]_vars
  /\ [](Cardinality(RelationSaves) = Cardinality({u \in RelatedUpserts : u.ok}))
  /\ [](\A j \in RelationSaves : \A k \in DOMAIN events :
          (events[k].level = "record" /\ events[k].index = events[j].index) => j < k)

\* C28 witness: a record's related write was reported on the save channel
\* with the sub-record and the saved record, and the record's own save
\* notification follows
C28_Witness ==
  \E j \in RelationSaves : \E k \in DOMAIN events :
    /\ j < k
    /\ events[k].level = "record" /\ events[k].chan = "save"
    /\ events[k].index = events[j].index
    /\ events[j].mappedData = Defined(SubRecord(Val(1), Val(2)))
    /\ events[j].targetItem.data[indexKey] = events[k].mappedData.data.k2

\* the record-level notifications of record i on channel chan
RecordNotices(i, chan) ==
  {j \in DOMAIN events :
     events[j].level = "record" /\ events[j].index = i /\ events[j].chan = chan}

\* the number of terminal outcomes record i has: a yield, a record-level skip
\* notification, a record-level error notification
Outcomes(i) ==
  Cardinality(YieldsOf(i)) + Cardinality(RecordNotices(i, "skip"))
    + Cardinality(RecordNotices(i, "error"))

\* C29: with observers that return, every record drawn from the source ends
\* with exactly one outcome: it was yielded, or it got a record-level skip
\* notification, or it got a record-level error notification; a record the
\* run is still working on has none yet, or the yield behind it.
C29_OneTerminalOutcome ==
  \A i \in 1..Len(drawn) :
    /\ Outcomes(i) <= 1
    /\ Finished(i) => Outcomes(i) = 1

\* C29 witness: the run is over, one record was yielded and the other one
\* was reported on the error channel
C29_Witness ==
  /\ pc = "done"
  /\ Len(drawn) = 2
  /\ \E i, j \in 1..2 :
       /\ YieldsOf(i) # {}
       /\ RecordNotices(j, "error") # {}

\* the primary store's updateOne calls made for record i
PrimaryUpsertsOf(i) ==
  {j \in DOMAIN upserts : upserts[j].store = "primary" /\ upserts[j].index = i}

\* C30: the primary store's updateOne is called at most once for a record,
\* and not at all for a record whose resolver threw or for which the
\* uniqueness check found a duplicate: the exception is followed at once by
\* the record's skip or error notification.
C30_PrimaryUpsertAtMostOnce ==
  /\ [](\A i \in 1..Len(drawn) : Cardinality(PrimaryUpsertsOf(i)) <= 1)
  /\ [](\A e \in RecordFailures :
          e.error.cause \in {"resolver", "duplicate"} => PrimaryUpsertsOf(e.index) = {})
  /\ [][pc = "catch" =>
          /\ upserts' = upserts
          /\ primaryData' = primaryData
          /\ pc' = "draw"
          /\ \E e \in Emitted :
               e.level = "record" /\ e.chan \in {"skip", "error"} /\ e.error = error]_vars

\* C30 witness: a record whose resolver threw and a record with a duplicate
\* were reported, and the primary store was called for neither
C30_Witness ==
  /\ \E e \in RecordFailures : e.error.cause = "resolver"
  /\ \E e \in RecordFailures : e.error.cause = "duplicate"
  /\ PrimaryUpserts = {}

\* applyObjectMapping stands at a descriptor, with a value, that is flagged
\* unique and names a related store
AtUniqueRelation ==
  /\ pc = "apply"
  /\ resolved[ki].unique
  /\ resolved[ki].model
  /\ descriptorValue # Null

\* C31: for a descriptor flagged unique that also names a related store only
\* the uniqueness query is made: no related store is constructed or written,
\* nothing is reported, and when the query finds nothing the field gets the
\* descriptor's own value.
C31_UniqueWinsOverRelation ==
  [][AtUniqueRelation =>
       /\ UNCHANGED <<stores, upserts, relatedData, events>>
       /\ queries' = Append(queries, [instance |-> mapping_targetStore,
                                      index |-> index,
                                      key |-> resolved[ki].key,
                                      value |-> descriptorValue])
       /\ IF getList(primaryData, resolved[ki].key, descriptorValue) = <<>>
            THEN parts' = Append(parts, <<resolved[ki].key, descriptorValue>>)
            ELSE pc' = "catch" /\ parts' = parts]_vars

\* C31 witness: the schema has a unique descriptor with a related store, and
\* the primary store was handed the field's own value, no related store
\* having been called
C31_Witness ==
  /\ \E f \in DOMAIN fieldMapping : \E j \in DOMAIN fieldMapping[f].patch :
       fieldMapping[f].patch[j].unique /\ fieldMapping[f].patch[j].model
  /\ \E u \in PrimaryUpserts : u.data.k1 = drawn[u.index].f1
  /\ RelatedUpserts = {}
  /\ queries # <<>>

\* C32: every key of the patch handed to the primary store's upsert, and of
\* the patch reported in the record's save notification, has a value that is
\* neither null nor undefined, relation fields included.
C32_PatchValuesDefined ==
  /\ \A u \in PrimaryUpserts : \A k \in DOMAIN u.data : u.data[k] # Null
  /\ \A e \in RecordSaves :
       e.mappedData.def => \A k \in DOMAIN e.mappedData.data :
                             e.mappedData.data[k] # Null

\* C33: when two source records of one run resolve the same value for a
\* unique field and the first one has been persisted, the second one is not
\* persisted, and once it is through it has been reported as skipped.
C33_DuplicateInRunSkipped ==
  \A a, b \in DOMAIN queries :
    ( /\ queries[a].index < queries[b].index
      /\ queries[a].key = queries[b].key
      /\ queries[a].value = queries[b].value
      /\ \E u \in Range(PrimaryOk) : u.index = queries[a].index )
    => /\ \A u \in PrimaryUpserts : u.index # queries[b].index
       /\ Finished(queries[b].index) =>
            \E e \in Range(events) : /\ e.chan = "skip"
                                     /\ e.index = queries[b].index

\* the generator being advanced comes from a call boot({ dryRun: true })
StartedAsDryRun ==
  /\ "dryRun" \in DOMAIN calls[run].option
  /\ calls[run].option.dryRun

\* C34: a boot run started with dryRun = true never invokes a store's upsert,
\* also when a second run with dryRun = false is started on the same migrator
\* and the two generators are advanced in turn: no step of the dry run adds
\* an upsert, whether to the primary or to a related store.
C34_DryRunIsolatedFromOtherRuns ==
  [][StartedAsDryRun => upserts' = upserts]_vars

\* the generator being advanced comes from a call boot() made while the
\* stored flag was true
InheritedDryRun ==
  /\ "dryRun" \notin DOMAIN calls[run].option
  /\ calls[run].dryRun

\* C35: a boot call that leaves the option out takes the stored flag, which
\* is the dryRun of the run that started last (false if none); the stored
\* flag changes only when a run starts; and a run that has taken the value
\* true this way performs no store write.
C35_OmittedOptionTakesStoredFlag ==
  [][ /\ (Len(calls') > Len(calls) /\ "dryRun" \notin DOMAIN calls'[run'].option)
         => dryRun' = this_dryRun
      /\ (pc = "created" /\ pc' = "draw") => this_dryRun' = dryRun
      /\ this_dryRun' # this_dryRun => (pc = "created" /\ pc' = "draw")
      /\ InheritedDryRun => upserts' = upserts ]_vars

\* the uniqueness queries that found a record in the target store
DuplicateQueries ==
  {q \in Range(queries) : getList(primaryData, q.key, q.value) # <<>>}

\* C36: in a dry run the uniqueness check is still made, as a query that
\* writes nothing; a record whose unique value is already in the target store
\* is not yielded and is reported as skipped; a descriptor with a related
\* store causes no store to be constructed, queried or written.
C36_DryRunStillChecksUniqueness ==
  /\ [](dryRun =>
          \A q \in DuplicateQueries :
            /\ q.index \notin YieldedIndexes
            /\ Finished(q.index) =>
                 \E e \in RecordFailures : e.index = q.index /\ e.chan = "skip")
  /\ [][(dryRun /\ pc = "apply" /\ descriptorValue # Null) =>
          /\ resolved[ki].unique =>
               /\ queries' = Append(queries, [instance |-> mapping_targetStore,
                                              index |-> index,
                                              key |-> resolved[ki].key,
                                              value |-> descriptorValue])
               /\ UNCHANGED <<primaryData, relatedData, upserts, stores>>
               /\ getList(primaryData, resolved[ki].key, descriptorValue) # <<>>
                    => pc' = "catch" /\ error'.kind = "RangeError"
          /\ (resolved[ki].model /\ ~resolved[ki].unique) =>
               /\ UNCHANGED <<primaryData, relatedData, upserts, stores, queries>>
               /\ parts' = Append(parts, <<resolved[ki].key, descriptorValue>>)]_vars

\* C36 witness: a dry run over a mapping with a related store has reported a
\* record as skipped after its uniqueness query found a duplicate, no related
\* store having been constructed
C36_Witness ==
  /\ dryRun
  /\ fieldMapping \in RelationSchemas
  /\ \E q \in DuplicateQueries :
       /\ Finished(q.index)
       /\ \E e \in RecordFailures : e.index = q.index /\ e.chan = "skip"
  /\ RelatedInstances = {}
  /\ upserts = <<>>

\* the record-level notices of one channel, counted as calls
NoticeCount(chan) ==
  Cardinality({j \in DOMAIN events : /\ events[j].level = "record"
                                     /\ events[j].chan = chan})

\* C37: over a source of N records, with calls that settle and a consumer
\* that keeps pulling, boot comes to its end; every step leaves the number of
\* records drawn plus those still in the source at N; and at the end the
\* source is empty and the yielded, skipped and errored records add up to the
\* records drawn.
C37_BootTerminatesAfterNRecords ==
  /\ <>(pc = "done")
  /\ [](pc = "done" =>
          /\ source = <<>>
          /\ Len(yielded) + NoticeCount("skip") + NoticeCount("error") = Len(drawn))
  /\ [][Len(drawn') + Len(source') = Len(drawn) + Len(source)]_vars

\* C37 witness: boot has come to its end over a source of MaxRecords records,
\* one of them yielded and another one skipped or errored
C37_Witness ==
  /\ pc = "done"
  /\ Len(drawn) = MaxRecords
  /\ yielded # <<>>
  /\ NoticeCount("skip") + NoticeCount("error") > 0

====
